---- MODULE Spec2Model ----
(***************************************************************************)
(* Cluster membership core of the daemon (cmd/incusd/api_cluster.go):      *)
(* join tokens, PUT/GET /1.0/cluster, member removal and the leader-side   *)
(* membership handlers.                                                    *)
(***************************************************************************)
EXTENDS Integers, Sequences, FiniteSets, TLC

\* ------------------------------------------------------------------ bounds
\* Number of join-token requests (POST /1.0/cluster/members) issued in a run.
MaxTokenReqs == 2
\* Number of request handlers (client requests and the requests members send
\* each other) started in a run.
MaxInFlight == 2
\* Number of times the loop of rebalanceMemberRoles starts again in a handler,
\* where the Raft configuration is not followed or other handlers are.
MaxRounds == 1
\* Number of role changes a call of rebalanceMemberRoles makes.
MaxRoleChanges == 5
\* Number of times a call of handoverMemberRole transfers leadership.
MaxTransfers == 2
\* Number of member updates between their two transactions at a time.
MaxUpdates == 2
\* Number of renames of a member in progress at a time.
MaxRenames == 2
\* Number of instances and of custom volumes the activation probe finds.
MaxInstances == 2
MaxVolumes == 1
\* Number of instances an evacuation handles.
MaxEvacuated == 3

\* ------------------------------------------------------------ the universe
\* Daemons that serve requests; member names of the members table, in the
\* order GetNodes returns them; names a join token may be requested for.
Daemons == {"n1", "n2"}
NameOrder == <<"n1", "n2", "n3">>
Names == {NameOrder[i] : i \in 1..Len(NameOrder)}
TokenNames == {"n2", "n3"}
NoRow == [state |-> "none", offline |-> FALSE]
NoHolder == 0

\* member.Address of the row named n.
Address(n) == "addr-" \o n

VARIABLES
  members,            \* the replicated members table: name -> row or NoRow
  serverClustered,    \* d.serverClustered of every daemon
  tokenOps,           \* the join-token operations of the cluster, oldest first
  clusterNodesPostMu, \* per daemon: the token request holding the mutex
  tokenReq,           \* the join-token requests in progress, by request number
  tokenResult,        \* what the join-token request that returned last returned
  serverName,         \* d.serverName of every daemon ("none" when stand-alone)
  gateway,            \* per daemon: the cluster its database belongs to, Raft up
  clusterTasks,       \* per daemon: the cluster tasks are started
  daemon,             \* per daemon: the process ("running", "exited 0", "replaced")
  systemdSocketActivated, \* d.systemdSocketActivated of every daemon
  clusterPutDisableMu,    \* per daemon: the handler whose goroutine holds the mutex
  h,                  \* the request handlers, by number
  putOps,             \* the asynchronous bootstrap and join operations
  lastPut,            \* the PUT /1.0/cluster request dispatched last
  clusterMembershipMutex, \* per daemon: the handler holding d.clusterMembershipMutex
  raft,               \* the Raft configuration: the role of every member ("none": not in it)
  lastResponse,       \* the response of the membership request answered last
  nodesRoles,         \* the roles stored in the database for every member
  handoverCall,       \* per daemon: its call of handoverMemberRole
  leaderAddress,      \* what s.Cluster.LeaderAddress() returns at the moment
  nodesInfo,          \* the config, description, failure domain and groups stored for every member
  updateCall,         \* the member updates between their two transactions
  lastEtag,           \* the ETag a client got from the GET of a member that returned last
  evacuation,         \* the evacuation of a member: the instance at hand and the calls made
  activate,           \* the activation probe: what it finds and what it did
  renameCall          \* the renames of a member between the transaction and the server name

tokenOnlyVars == <<members, tokenOps, clusterNodesPostMu, tokenReq, tokenResult>>
infoVars == <<nodesInfo, updateCall, lastEtag>>
sideVars == <<evacuation, activate, renameCall>>
auxVars == <<infoVars, sideVars>>
putFrame == <<tokenOnlyVars, systemdSocketActivated, clusterMembershipMutex, raft,
              lastResponse, nodesRoles, handoverCall, leaderAddress, auxVars>>
tokenVars ==
  <<members, serverClustered, tokenOps, clusterNodesPostMu, tokenReq, tokenResult>>
nodeVars ==
  <<serverName, gateway, clusterTasks, daemon, systemdSocketActivated,
    clusterPutDisableMu, h, putOps, lastPut, clusterMembershipMutex,
    raft, lastResponse, nodesRoles, handoverCall, leaderAddress, auxVars>>
roleVars == <<raft, lastResponse, nodesRoles>>
handoverVars == <<handoverCall, leaderAddress>>
extVars == <<roleVars, handoverVars, auxVars>>
vars == <<tokenVars, nodeVars>>

\* ================================================== daemons and handlers
\* The longest chain of nested requests: a member delete forwarded to the
\* leader, whose handler calls the member back to dissolve it.
ChainLen == 3
HandlerIds == 1..(ChainLen * MaxInFlight)
PutOpIds == 1..MaxInFlight

\* A handler: its kind, daemon and position; the request that called it
\* (parent, 0 for a client) and the client request at the root of the chain
\* (origin, 0 for itself); the handler serving its nested request (child) and
\* the daemon its RPC in flight is sent to (rpc); the member named in the
\* request and its force flag; what clusterPutDisable did so far (log); its
\* goroutines (exitG stops the daemon, relG releases clusterPutDisableMu);
\* its response; the rounds of its rebalance loop; the Raft role of the assign
\* request it has in flight.
FreeHandler ==
  [kind |-> "free", d |-> "n1", pc |-> "", parent |-> 0, origin |-> 0, child |-> 0,
   rpc |-> "", name |-> "", force |-> FALSE, log |-> <<>>, exitG |-> "none",
   relG |-> "none", resp |-> "", rounds |-> 0, role |-> "", probed |-> "",
   nodes |-> 0]
NoPutOp == [kind |-> "none", d |-> "n1", name |-> ""]
NoPut == [branch |-> "", resp |-> ""]
RaftRoles == {"voter", "stand-by", "spare"}
NoRaft == [n \in Names |-> "none"]
NoResponse ==
  [kind |-> "", d |-> "", name |-> "", resp |-> "", raft_nodes |-> NoRaft,
   private_key |-> FALSE, url |-> ""]
NoCall == [pc |-> "idle", leader |-> "", transfers |-> 0]
\* api.ClusterMemberPut with every field at its zero value, and what the
\* database stores for a member nothing was stored for.
ZeroPut ==
  [config |-> <<>>, description |-> "", roles |-> {}, failure_domain |-> "",
   groups |-> {}]
NoInfo == [config |-> <<>>, description |-> "", failure_domain |-> "", groups |-> {}]
UpdateIds == 1..MaxUpdates
NoUpdate ==
  [pc |-> "idle", d |-> "", name |-> "", isPatch |-> FALSE, req |-> ZeroPut,
   memberInfo |-> ZeroPut, ifMatch |-> <<>>, body |-> <<>>]
NoEvacuation ==
  [pc |-> "idle", mode |-> "", live |-> FALSE, startInstance |-> FALSE, log |-> <<>>,
   n |-> 0]
NoProbe == [pc |-> "idle"]
RenameIds == 1..MaxRenames
NoRename == [pc |-> "idle", old |-> "", new |-> ""]

\* No evacuation, activation probe or rename.
InitSide ==
  /\ evacuation = NoEvacuation
  /\ activate = NoProbe
  /\ renameCall = [r \in RenameIds |-> NoRename]

\* No stored member information, update in progress or ETag, and InitSide.
InitAux ==
  /\ nodesInfo = [n \in Names |-> NoInfo]
  /\ updateCall = [u \in UpdateIds |-> NoUpdate]
  /\ lastEtag = <<>>
  /\ InitSide

\* No Raft role, stored role, logged response or handover call: the state
\* of these variables where the specification does not follow them.
InitIdle ==
  /\ raft = NoRaft
  /\ lastResponse = NoResponse
  /\ nodesRoles = [n \in Names |-> {}]
  /\ handoverCall = [d \in Daemons |-> NoCall]
  /\ leaderAddress = ""
  /\ InitAux

\* The daemons in dom are members of one cluster under their own names, the
\* others are stand-alone; no request has been made yet.
InitNodes(dom) ==
  /\ serverName = [d \in Daemons |-> IF d \in dom THEN d ELSE "none"]
  /\ gateway = [d \in Daemons |-> [member |-> IF d \in dom THEN d ELSE "", up |-> TRUE]]
  /\ clusterTasks = [d \in Daemons |-> d \in dom]
  /\ daemon = [d \in Daemons |-> "running"]
  /\ systemdSocketActivated \in [Daemons -> BOOLEAN]
  /\ clusterPutDisableMu = [d \in Daemons |-> NoHolder]
  /\ h = [i \in HandlerIds |-> FreeHandler]
  /\ putOps = [o \in PutOpIds |-> NoPutOp]
  /\ lastPut = NoPut
  /\ clusterMembershipMutex = [d \in Daemons |-> NoHolder]

\* ======================================================== join tokens
TokenReqIds == 1..MaxTokenReqs

IdleTokenReq ==
  [pc |-> "idle", d |-> "n1", name |-> "n3", addrs |-> <<>>, exists |-> FALSE,
   online |-> {}, todo |-> <<>>, cancelled |-> 0]
DoneTokenReq == [IdleTokenReq EXCEPT !.pc = "done"]
NoTokenResult ==
  [failure |-> "", resp |-> "", clustered |-> FALSE, exists |-> FALSE, online |-> {},
   addrs |-> <<>>, cancelled |-> 0, created |-> 0]

\* member.IsOffline(offline_threshold): the row's heartbeat is too old.
IsOffline(row) == row.offline

\* The loop over tx.GetNodes of clusterNodesPost: an error as soon as a member
\* has the requested name, else the addresses of the members that are neither
\* evacuated nor offline, in table order.
RECURSIVE FilterNotOffline(_, _, _, _)
FilterNotOffline(tbl, name, i, acc) ==
  IF i > Len(NameOrder) THEN [exists |-> FALSE, addrs |-> acc]
  ELSE LET m == NameOrder[i] IN
    IF tbl[m].state \notin {"created", "evacuated"}
      THEN FilterNotOffline(tbl, name, i + 1, acc)
    ELSE IF m = name THEN [exists |-> TRUE, addrs |-> acc]
    ELSE IF IsOffline(tbl[m])
      THEN FilterNotOffline(tbl, name, i + 1, acc)
    ELSE FilterNotOffline(tbl, name, i + 1, Append(acc, Address(m)))

RECURSIVE FilterOnline(_, _, _, _)
FilterOnline(tbl, name, i, acc) ==
  IF i > Len(NameOrder) THEN [exists |-> FALSE, addrs |-> acc]
  ELSE LET m == NameOrder[i] IN
    IF tbl[m].state \notin {"created", "evacuated"}
      THEN FilterOnline(tbl, name, i + 1, acc)
    ELSE IF m = name THEN [exists |-> TRUE, addrs |-> acc]
    ELSE IF tbl[m].state = "evacuated" \/ IsOffline(tbl[m])
      THEN FilterOnline(tbl, name, i + 1, acc)
    ELSE FilterOnline(tbl, name, i + 1, Append(acc, Address(m)))

onlineNodeAddresses(tbl, name) == FilterOnline(tbl, name, 1, <<>>)

\* Response constructors used by the handlers.
BadRequest == "BadRequest 400"
InternalError == "InternalError 500"
SmartError == "SmartError 500"
Unavailable == "Unavailable 503"
OperationResponse == "Operation 202"

\* The response of clusterNodesPost when no member is online.
NoOnlineMembersUnavailable == Unavailable
NoOnlineMembersResponse == InternalError

\* The members that are neither evacuated nor offline, as a set of names.
OnlineMembers(tbl) ==
  {n \in Names : tbl[n].state = "created" /\ ~tbl[n].offline}

\* A request returns: its result is recorded (with what held when it read the
\* members table) and its slot is left done.
TokenReturn(i, why, r, isClustered, nameExists, online, addrs, ncancel, op) ==
  /\ tokenReq' = [tokenReq EXCEPT ![i] = DoneTokenReq]
  /\ tokenResult' = [failure |-> why, resp |-> r, clustered |-> isClustered,
                     exists |-> nameExists, online |-> online, addrs |-> addrs,
                     cancelled |-> ncancel, created |-> op]

\* First part of clusterNodesPost, up to the token mutex: the clustered check,
\* the expiry, the members transaction (name check and filter) and the online
\* check.
clusterNodesPostBegin(i, d, name, expiryOK) ==
  /\ tokenReq[i].pc = "idle"
  /\ \A j \in 1..(i - 1) : tokenReq[j].pc # "idle"
  /\ LET scan == onlineNodeAddresses(members, name)
         fail(why, r) ==
           TokenReturn(i, why, r, serverClustered[d], members[name] # NoRow,
                       OnlineMembers(members), <<>>, 0, 0)
     IN IF ~serverClustered[d] THEN fail("not clustered", BadRequest)
        ELSE IF ~expiryOK THEN fail("expiry", BadRequest)
        ELSE IF scan.exists THEN fail("exists", SmartError)
        ELSE IF Len(scan.addrs) < 1
          THEN fail("no online members", NoOnlineMembersResponse)
        ELSE /\ tokenReq' = [tokenReq EXCEPT ![i] =
                  [IdleTokenReq EXCEPT !.pc = "lock", !.d = d, !.name = name,
                     !.addrs = scan.addrs, !.exists = members[name] # NoRow,
                     !.online = OnlineMembers(members)]]
             /\ UNCHANGED tokenResult
  /\ UNCHANGED <<members, serverClustered, tokenOps, clusterNodesPostMu, nodeVars>>

\* clusterNodesPostMu.Lock() of the daemon handling the request.
TokenMuNotTaken(d) == TRUE
TokenMuFree(d) == clusterNodesPostMu[d] = NoHolder
clusterNodesPostLock(i) ==
  /\ tokenReq[i].pc = "lock"
  /\ TokenMuFree(tokenReq[i].d)
  /\ clusterNodesPostMu' = [clusterNodesPostMu EXCEPT ![tokenReq[i].d] = i]
  /\ tokenReq' = [tokenReq EXCEPT ![i].pc = "getops"]
  /\ UNCHANGED <<members, serverClustered, tokenOps, tokenResult, nodeVars>>

\* The deferred clusterNodesPostMu.Unlock() of a returning request.
TokenUnlock(i) ==
  clusterNodesPostMu' = [clusterNodesPostMu EXCEPT ![tokenReq[i].d] = NoHolder]

\* A request that holds the mutex returns with a failure.
TokenFail(i, why, r) ==
  /\ TokenReturn(i, why, r, serverClustered[tokenReq[i].d], tokenReq[i].exists,
                 tokenReq[i].online, <<>>, tokenReq[i].cancelled, 0)
  /\ TokenUnlock(i)

\* operationsGetByType: the join-token operations of every cluster member, as
\* they are when they are collected.
operationsGetByType(ops) ==
  [k \in 1..Len(ops) |-> [id |-> k, status |-> ops[k].status, name |-> ops[k].name]]

\* The operations the cancel loop of clusterNodesPost acts on: the running ones
\* whose serverName metadata is the requested name.
ToCancel(seen, name) ==
  SelectSeq(seen, LAMBDA op : op.status = "Running" /\ op.name = name)

clusterNodesPostGetOps(i, ok) ==
  /\ tokenReq[i].pc = "getops"
  /\ IF ok
       THEN /\ tokenReq' = [tokenReq EXCEPT ![i].pc = "cancel",
                 ![i].todo = ToCancel(operationsGetByType(tokenOps), tokenReq[i].name)]
            /\ UNCHANGED <<clusterNodesPostMu, tokenResult>>
       ELSE TokenFail(i, "get operations", InternalError)
  /\ UNCHANGED <<members, serverClustered, tokenOps, nodeVars>>

\* One iteration of the cancel loop: operationCancel on the next matching
\* operation; an error ends the request.
clusterNodesPostCancel(i, ok) ==
  /\ tokenReq[i].pc = "cancel"
  /\ tokenReq[i].todo # <<>>
  /\ IF ok
       THEN /\ tokenOps' = [tokenOps EXCEPT ![Head(tokenReq[i].todo).id].status = "Cancelled"]
            /\ tokenReq' = [tokenReq EXCEPT ![i].todo = Tail(tokenReq[i].todo),
                                            ![i].cancelled = tokenReq[i].cancelled + 1]
            /\ UNCHANGED <<clusterNodesPostMu, tokenResult>>
       ELSE /\ TokenFail(i, "cancel", InternalError)
            /\ UNCHANGED tokenOps
  /\ UNCHANGED <<members, serverClustered, nodeVars>>

\* The rest of clusterNodesPost: the secret, the fingerprint and
\* operations.OperationCreate of the token operation, then the deferred unlock.
clusterNodesPostCreate(i, ok) ==
  /\ tokenReq[i].pc = "cancel"
  /\ tokenReq[i].todo = <<>>
  /\ IF ok
       THEN /\ tokenOps' = Append(tokenOps,
                 [name |-> tokenReq[i].name, status |-> "Running",
                  addrs |-> tokenReq[i].addrs, d |-> tokenReq[i].d])
            /\ TokenReturn(i, "", OperationResponse, serverClustered[tokenReq[i].d],
                           tokenReq[i].exists, tokenReq[i].online, tokenReq[i].addrs,
                           tokenReq[i].cancelled, Len(tokenOps) + 1)
            /\ TokenUnlock(i)
       ELSE /\ TokenFail(i, "create", InternalError)
            /\ UNCHANGED tokenOps
  /\ UNCHANGED <<members, serverClustered, nodeVars>>

\* A running token operation ends: it expired or the joiner consumed it.
TokenExpire(k) ==
  /\ k \in 1..Len(tokenOps)
  /\ tokenOps[k].status = "Running"
  /\ tokenOps' = [tokenOps EXCEPT ![k].status = "Cancelled"]
  /\ UNCHANGED <<members, serverClustered, clusterNodesPostMu, tokenReq, tokenResult,
                 nodeVars>>

Rows == {[state |-> "created", offline |-> FALSE], [state |-> "created", offline |-> TRUE],
         [state |-> "evacuated", offline |-> FALSE]}

\* The state or the heartbeat of a member changes (evacuation, restore,
\* heartbeat round).
MemberStateChange(n, row) ==
  /\ members[n].state \in {"created", "evacuated"}
  /\ members[n] # row
  /\ members' = [members EXCEPT ![n] = row]
  /\ UNCHANGED <<serverClustered, tokenOps, clusterNodesPostMu, tokenReq, tokenResult,
                 nodeVars>>

InitToken ==
  /\ \E r1 \in Rows, r2 \in Rows \cup {NoRow} :
       members = [n \in Names |-> IF n = "n1" THEN r1 ELSE IF n = "n2" THEN r2 ELSE NoRow]
  /\ serverClustered = [d \in Daemons |-> members[d] # NoRow]
  /\ InitNodes({d \in Daemons : members[d] # NoRow})
  /\ systemdSocketActivated = [d \in Daemons |-> FALSE]
  /\ tokenOps = <<>>
  /\ clusterNodesPostMu = [d \in Daemons |-> NoHolder]
  /\ tokenReq = [i \in TokenReqIds |-> IdleTokenReq]
  /\ tokenResult = NoTokenResult
  /\ InitIdle

NextToken ==
  \/ \E i \in TokenReqIds, d \in Daemons, name \in TokenNames, e \in BOOLEAN :
       clusterNodesPostBegin(i, d, name, e)
  \/ \E i \in TokenReqIds : clusterNodesPostLock(i)
  \/ \E i \in TokenReqIds, ok \in BOOLEAN : clusterNodesPostGetOps(i, ok)
  \/ \E i \in TokenReqIds, ok \in BOOLEAN : clusterNodesPostCancel(i, ok)
  \/ \E i \in TokenReqIds, ok \in BOOLEAN : clusterNodesPostCreate(i, ok)
  \/ \E k \in TokenReqIds : TokenExpire(k)
  \/ \E n \in Names, row \in Rows : MemberStateChange(n, row)

SpecToken == InitToken /\ [][NextToken]_vars

\* ---------------------------------------------------- join tokens: claims
RunningTokens(name) ==
  {k \in 1..Len(tokenOps) : tokenOps[k].name = name /\ tokenOps[k].status = "Running"}

\* C3: after any sequence of join-token requests, also concurrent ones handled
\* by different members, at most one token operation per server name is running.
C3_OneRunningTokenPerName ==
  \A name \in TokenNames : Cardinality(RunningTokens(name)) <= 1

\* C4: token requests for one name handled by one daemon are serialized by the
\* token mutex: at most one of them is past the lock; of two tokens the daemon
\* issued for the name the earlier one is no longer running; and a request
\* whose cancellation of the earlier token failed created no token.
C4_SameDaemonSerialized ==
  /\ \A i, j \in TokenReqIds :
        (/\ i # j
         /\ tokenReq[i].pc \in {"getops", "cancel"}
         /\ tokenReq[j].pc \in {"getops", "cancel"}) => tokenReq[i].d # tokenReq[j].d
  /\ \A a, b \in 1..Len(tokenOps) :
        (/\ a < b
         /\ tokenOps[a].name = tokenOps[b].name
         /\ tokenOps[a].d = tokenOps[b].d) => tokenOps[a].status # "Running"
  /\ tokenResult.failure = "cancel" => tokenResult.created = 0

\* C4 witness: a daemon issued two tokens for one name, the second request
\* cancelled the first token and its own token is running.
C4_Witness ==
  \E a, b \in 1..Len(tokenOps) :
    /\ a < b
    /\ tokenOps[a].name = tokenOps[b].name
    /\ tokenOps[a].d = tokenOps[b].d
    /\ tokenOps[a].status = "Cancelled"
    /\ tokenOps[b].status = "Running"
    /\ tokenResult.created = b
    /\ tokenResult.cancelled = 1

\* C5: the addresses of an issued token are exactly the addresses of the
\* members that were neither evacuated nor offline when the request read the
\* members table; a request made on a server that is not clustered, for the
\* name of an existing member, or with no such member fails, creates no token
\* and cancels none.
C5_TokenAddresses ==
  /\ tokenResult.created # 0 =>
        /\ {tokenResult.addrs[k] : k \in 1..Len(tokenResult.addrs)}
             = {Address(n) : n \in tokenResult.online}
        /\ Len(tokenResult.addrs) = Cardinality(tokenResult.online)
        /\ tokenOps[tokenResult.created].addrs = tokenResult.addrs
  /\ (/\ tokenResult.resp # ""
      /\ \/ ~tokenResult.clustered
         \/ tokenResult.exists
         \/ tokenResult.online = {}) =>
        /\ tokenResult.failure # ""
        /\ tokenResult.resp # OperationResponse
        /\ tokenResult.created = 0
        /\ tokenResult.cancelled = 0

\* C5 witness: a token was issued while one of the two members was filtered
\* out, so that its addresses are those of the other member only.
C5_Witness ==
  /\ tokenResult.created # 0
  /\ members["n2"] # NoRow
  /\ Len(tokenResult.addrs) = 1

\* The requests C6 is about: made on a clustered server with a valid expiry
\* and a new name, when no member was online.
NoOnlineRequest ==
  /\ tokenResult.resp # ""
  /\ tokenResult.clustered
  /\ tokenResult.failure # "expiry"
  /\ ~tokenResult.exists
  /\ tokenResult.online = {}

\* C6 as stated: a join-token request made when no member is online fails with
\* the Unavailable error kind (503).
C6_NoOnlineIsUnavailable == NoOnlineRequest => tokenResult.resp = Unavailable

\* C6 as amended: such a request fails with the Internal error kind (500).
C6_NoOnlineIsInternalError ==
  NoOnlineRequest =>
    /\ tokenResult.resp = InternalError
    /\ tokenResult.failure = "no online members"

\* C6 witness: a request failed because no member was online.
C6_Witness == NoOnlineRequest /\ tokenResult.failure = "no online members"

\* ============================================ GET and PUT /1.0/cluster
EmptySyncResponse == "EmptySyncResponse 200"

\* The request bodies of PUT /1.0/cluster the model draws from;
\* cluster_certificate and server_address say whether the field is given.
PutBodies ==
  { b \in [server_name : {"", "n1", "@g1"}, enabled : BOOLEAN,
           cluster_address : {"", "addr-n2"},
           cluster_certificate : BOOLEAN, server_address : BOOLEAN] :
      b.cluster_address = "" \/ ~b.enabled \/ b.server_name # "n1"
        => ~b.cluster_certificate /\ ~b.server_address }

targetGroupPrefix == "@"
\* strings.HasPrefix over the server names of PutBodies.
HasPrefix(str, prefix) == \E rest \in {"", "1", "g1", "n1"} : str = prefix \o rest

\* clusterGet: the server name and the enabled flag it reports.
clusterGet(d) ==
  LET name == IF serverName[d] = "none" THEN "" ELSE serverName[d]
  IN [server_name |-> name, enabled |-> name # ""]

\* The quick checks of clusterPut and the choice of the branch.
clusterPutNoPrefixCheck(req) ==
  IF req.server_name = "" /\ req.enabled THEN "BadRequest"
  ELSE IF req.server_name # "" /\ ~req.enabled THEN "BadRequest"
  ELSE IF ~req.enabled THEN "clusterPutDisable"
  ELSE IF req.cluster_address = "" THEN "clusterPutBootstrap"
  ELSE "clusterPutJoin"
clusterPutBranch(req) ==
  IF req.server_name = "" /\ req.enabled THEN "BadRequest"
  ELSE IF req.server_name # "" /\ ~req.enabled THEN "BadRequest"
  ELSE IF req.server_name # "" /\ HasPrefix(req.server_name, targetGroupPrefix)
    THEN "BadRequest"
  ELSE IF ~req.enabled THEN "clusterPutDisable"
  ELSE IF req.cluster_address = "" THEN "clusterPutBootstrap"
  ELSE "clusterPutJoin"

\* A handler is alive until it returned and its goroutines ended; a handler
\* that returned stays in the table while the caller has its response to
\* read or a request of its chain is alive.
Alive(hh, i) ==
  /\ hh[i].kind # "free"
  /\ hh[i].pc # "done" \/ hh[i].exitG = "wait" \/ hh[i].relG = "wait"
Retained(hh, i) ==
  \E j \in HandlerIds : Alive(hh, j) /\ (hh[j].origin = i \/ hh[j].child = i)
Collect(hh) ==
  [i \in HandlerIds |-> IF Alive(hh, i) \/ Retained(hh, i) THEN hh[i] ELSE FreeHandler]

\* The client requests and operations in flight; the model caps their number.
InFlight ==
  Cardinality({i \in HandlerIds : h[i].kind # "free" /\ h[i].parent = 0})
    + Cardinality({o \in PutOpIds : putOps[o].kind # "none"})
HasFreeHandler == InFlight < MaxInFlight
FreeHandlerId ==
  CHOOSE i \in HandlerIds : h[i].kind = "free" /\ \A j \in 1..(i - 1) : h[j].kind # "free"
FreePutOp ==
  CHOOSE o \in PutOpIds : putOps[o].kind = "none" /\ \A j \in 1..(o - 1) : putOps[j].kind # "none"
HasFreePutOp == InFlight < MaxInFlight

\* A handler returns its response; its request is finished.
Respond(i, r) ==
  [h[i] EXCEPT !.pc = "done", !.resp = r, !.rpc = "", !.child = 0, !.role = "",
          !.probed = ""]

\* The handler of a request that clusterPut sends to clusterPutDisable.
NewDisableHandler(d, parent) ==
  [FreeHandler EXCEPT !.kind = "put", !.d = d, !.pc = "disable", !.parent = parent,
     !.origin = IF parent = 0 THEN 0
                ELSE IF h[parent].origin = 0 THEN parent ELSE h[parent].origin]

\* The handler part of clusterPutBootstrap: the local configuration
\* transaction and operations.OperationCreate.
clusterPutBootstrap(d, req, outcome) ==
  /\ outcome \in {"ok", "config", "create"}
  /\ UNCHANGED <<serverName, serverClustered, gateway, clusterTasks, daemon,
                 clusterPutDisableMu, h>>
  /\ outcome = "ok" => HasFreePutOp
  /\ IF outcome = "ok"
       THEN /\ putOps' = [putOps EXCEPT ![FreePutOp] =
                 [kind |-> "bootstrap", d |-> d, name |-> req.server_name]]
            /\ lastPut' = [branch |-> "clusterPutBootstrap", resp |-> OperationResponse]
       ELSE /\ putOps' = putOps
            /\ lastPut' = [branch |-> "clusterPutBootstrap",
                 resp |-> IF outcome = "config" THEN SmartError ELSE InternalError]

\* The handler part of clusterPutJoin: the pre-conditions, the address
\* configuration and operations.OperationCreate.
clusterPutJoin(d, req, outcome) ==
  /\ outcome \in {"ok", "address", "create"}
  /\ UNCHANGED <<serverName, serverClustered, gateway, clusterTasks, daemon,
                 clusterPutDisableMu, h>>
  /\ LET r == IF ~req.cluster_certificate THEN BadRequest
              ELSE IF serverClustered[d] THEN BadRequest
              ELSE IF ~req.server_address THEN BadRequest
              ELSE IF outcome = "address" THEN SmartError
              ELSE IF outcome = "create" THEN InternalError
              ELSE OperationResponse
     IN /\ r = OperationResponse => HasFreePutOp
        /\ IF r = OperationResponse
             THEN /\ putOps' = [putOps EXCEPT ![FreePutOp] =
                       [kind |-> "join", d |-> d, name |-> req.server_name]]
                  /\ lastPut' = [branch |-> "clusterPutJoin", resp |-> r]
             ELSE /\ putOps' = putOps
                  /\ lastPut' = [branch |-> "clusterPutJoin", resp |-> r]

\* The request of handler parent is on its way to daemon d and not served yet.
RpcPending(parent, d, pc) ==
  /\ h[parent].kind # "free"
  /\ h[parent].pc = pc
  /\ h[parent].rpc = d
  /\ h[parent].child = 0

\* The body of the request the leader sends to a member it removed.
UpdateClusterBody ==
  [server_name |-> "", enabled |-> FALSE, cluster_address |-> "",
   cluster_certificate |-> FALSE, server_address |-> FALSE]

\* clusterPut on daemon d: the quick checks, then the branch. The request
\* comes from a client (parent = 0) or from the leader's handler parent, which
\* removed this member. clusterPutDisable continues in the Disable steps,
\* whose handler takes a slot of h.
clusterPut(d, parent, req, outcome) ==
  /\ daemon[d] = "running"
  /\ parent # 0 => RpcPending(parent, d, "dissolve") /\ req = UpdateClusterBody
  /\ LET branch == clusterPutBranch(req)
     IN CASE branch = "BadRequest" ->
               /\ outcome = "ok"
               /\ lastPut' = [branch |-> branch, resp |-> BadRequest]
               /\ UNCHANGED <<serverName, serverClustered, gateway, clusterTasks, daemon,
                              clusterPutDisableMu, putOps, h>>
          [] branch = "clusterPutDisable" ->
               /\ outcome = "ok"
               /\ UNCHANGED <<serverName, serverClustered, gateway, clusterTasks, daemon,
                              clusterPutDisableMu, putOps, lastPut>>
               /\ parent = 0 => HasFreeHandler
               /\ LET new == FreeHandlerId
                  IN h' = [j \in HandlerIds |->
                            IF j = new THEN NewDisableHandler(d, parent)
                            ELSE IF j = parent THEN [h[j] EXCEPT !.child = new]
                            ELSE h[j]]
          [] branch = "clusterPutBootstrap" -> clusterPutBootstrap(d, req, outcome)
          [] branch = "clusterPutJoin" -> clusterPutJoin(d, req, outcome)

\* cluster.Bootstrap and cluster.Join can succeed only on a daemon whose
\* database is not part of a cluster yet.
BootstrapAllowed(d) == gateway[d].member = ""
JoinAllowed(d) == gateway[d].member = ""

EndPutOp(o) == putOps' = [putOps EXCEPT ![o] = NoPutOp]

\* The run function of clusterPutBootstrap: the server name and the clustered
\* flag are set and the cluster tasks started, then cluster.Bootstrap; when it
\* fails the tasks are stopped and the operation fails.
clusterPutBootstrapRun(o, outcome) ==
  /\ putOps[o].kind = "bootstrap"
  /\ daemon[putOps[o].d] = "running"
  /\ outcome \in {"ok", "bootstrap", "network"}
  /\ outcome # "bootstrap" => BootstrapAllowed(putOps[o].d)
  /\ LET d == putOps[o].d
         name == putOps[o].name
     IN /\ serverClustered' = [serverClustered EXCEPT ![d] = TRUE]
        /\ IF outcome = "bootstrap"
             THEN /\ serverName' = [serverName EXCEPT ![d] = name]
                  /\ clusterTasks' = [clusterTasks EXCEPT ![d] = FALSE]
                  /\ UNCHANGED gateway
             ELSE /\ serverName' = [serverName EXCEPT ![d] = name]
                  /\ clusterTasks' = [clusterTasks EXCEPT ![d] = TRUE]
                  /\ gateway' = [gateway EXCEPT ![d].member = name]
  /\ EndPutOp(o)
  /\ UNCHANGED <<daemon, clusterPutDisableMu, h, lastPut>>

\* The run function of clusterPutJoin. The steps before the server name is
\* set (trust, connection to the cluster, member name check) fail without a
\* trace; from then on the reverter restores the server name and the clustered
\* flag, and stops the cluster tasks once they were started. cluster.Join
\* itself is not undone.
\*   setup : a step before the server name is set fails
\*   accept: clusterInitMember, the accept request or cluster.Join fails
\*   group : AddNodeToClusterGroup fails, after cluster.Join
\*   config: a step after startClusterTasks fails
clusterPutJoinRun(o, outcome) ==
  /\ putOps[o].kind = "join"
  /\ daemon[putOps[o].d] = "running"
  /\ outcome \in {"ok", "setup", "accept", "group", "config"}
  /\ outcome \in {"ok", "group", "config"} => JoinAllowed(putOps[o].d)
  /\ LET d == putOps[o].d
         name == putOps[o].name
         oldServerName == serverName[d]
     IN CASE outcome = "setup" ->
               UNCHANGED <<serverName, serverClustered, gateway, clusterTasks>>
          [] outcome = "accept" ->
               /\ serverName' = [serverName EXCEPT ![d] = oldServerName]
               /\ serverClustered' = [serverClustered EXCEPT ![d] = FALSE]
               /\ UNCHANGED <<gateway, clusterTasks>>
          [] outcome = "group" ->
               /\ serverName' = [serverName EXCEPT ![d] = oldServerName]
               /\ serverClustered' = [serverClustered EXCEPT ![d] = FALSE]
               /\ gateway' = [gateway EXCEPT ![d].member = name]
               /\ UNCHANGED clusterTasks
          [] outcome = "config" ->
               /\ serverName' = [serverName EXCEPT ![d] = oldServerName]
               /\ serverClustered' = [serverClustered EXCEPT ![d] = FALSE]
               /\ gateway' = [gateway EXCEPT ![d].member = name]
               /\ clusterTasks' = [clusterTasks EXCEPT ![d] = FALSE]
          [] outcome = "ok" ->
               /\ serverName' = [serverName EXCEPT ![d] = name]
               /\ serverClustered' = [serverClustered EXCEPT ![d] = TRUE]
               /\ gateway' = [gateway EXCEPT ![d].member = name]
               /\ clusterTasks' = [clusterTasks EXCEPT ![d] = TRUE]
  /\ EndPutOp(o)
  /\ UNCHANGED <<daemon, clusterPutDisableMu, h, lastPut>>

\* ------------------------------------------------------ clusterPutDisable
\* clusterPutDisable up to gateway.Reset: the cluster database is closed, the
\* cluster certificate files removed, the member certificate loaded and Raft
\* reset to a single-node cluster; any error is the response.
clusterPutDisableReset(i, outcome) ==
  /\ h[i].pc = "disable"
  /\ daemon[h[i].d] = "running"
  /\ outcome \in {"ok", "close", "remove", "load", "reset"}
  /\ IF outcome = "ok"
       THEN /\ gateway' = [gateway EXCEPT ![h[i].d].member = ""]
            /\ h' = [h EXCEPT ![i].pc = "reset", ![i].log = Append(h[i].log, "reset")]
       ELSE /\ h' = Collect([h EXCEPT ![i] =
                   Respond(i, IF outcome \in {"close", "reset"}
                                THEN SmartError ELSE InternalError)])
            /\ UNCHANGED gateway
  /\ UNCHANGED <<serverName, serverClustered, clusterTasks, daemon, clusterPutDisableMu,
                 putOps, lastPut>>

\* gateway.Kill, then the goroutine that will stop the daemon is started.
clusterPutDisableKill(i) ==
  /\ h[i].pc = "reset"
  /\ daemon[h[i].d] = "running"
  /\ gateway' = [gateway EXCEPT ![h[i].d].up = FALSE]
  /\ h' = [h EXCEPT ![i].pc = "killed", ![i].exitG = "wait",
                    ![i].log = Append(h[i].log, "kill")]
  /\ UNCHANGED <<serverName, serverClustered, clusterTasks, daemon, clusterPutDisableMu,
                 putOps, lastPut>>

\* The manual response of clusterPutDisable is rendered and flushed; the
\* request is finished.
clusterPutDisableRespond(i) ==
  /\ h[i].pc = "killed"
  /\ daemon[h[i].d] = "running"
  /\ h' = [h EXCEPT ![i] = [Respond(i, EmptySyncResponse)
                              EXCEPT !.log = Append(h[i].log, "response")]]
  /\ UNCHANGED <<serverName, serverClustered, gateway, clusterTasks, daemon,
                 clusterPutDisableMu, putOps, lastPut>>

\* <-r.Context().Done(): the request of handler i is finished.
RequestNotAwaited(i) == TRUE
RequestDone(i) == h[i].pc = "done"

\* clusterPutDisableMu.Lock() of the goroutine.
DisableMuNotTaken(d) == TRUE
DisableMuFree(d) == clusterPutDisableMu[d] = NoHolder

\* The process of daemon d ends: its handlers, goroutines and operations are
\* gone with it.
ProcessEnds(d, how) ==
  /\ daemon' = [daemon EXCEPT ![d] = how]
  /\ h' = Collect([j \in HandlerIds |->
                     IF h[j].kind # "free" /\ h[j].d = d THEN FreeHandler ELSE h[j]])
  /\ putOps' = [o \in PutOpIds |-> IF putOps[o].d = d THEN NoPutOp ELSE putOps[o]]
  /\ clusterPutDisableMu' = [clusterPutDisableMu EXCEPT ![d] = NoHolder]

\* The goroutine of clusterPutDisable: once the request is finished and the
\* mutex acquired, the daemon exits with code 0 (socket activation) or is
\* replaced; a failed replacement is logged and the mutex released.
clusterPutDisableExit(i, replaceOK) ==
  /\ h[i].exitG = "wait"
  /\ daemon[h[i].d] = "running"
  /\ RequestDone(i)
  /\ DisableMuFree(h[i].d)
  /\ IF systemdSocketActivated[h[i].d]
       THEN /\ replaceOK
            /\ ProcessEnds(h[i].d, "exited 0")
     ELSE IF replaceOK
       THEN ProcessEnds(h[i].d, "replaced")
     ELSE /\ h' = Collect([h EXCEPT ![i].exitG = "done"])
          /\ UNCHANGED <<daemon, putOps, clusterPutDisableMu>>
  /\ UNCHANGED <<serverName, serverClustered, gateway, clusterTasks, lastPut>>

\* The daemon starts again after it exited or was replaced: its name and its
\* clustered flag are those of its database.
DaemonStart(d) ==
  /\ daemon[d] # "running"
  /\ daemon' = [daemon EXCEPT ![d] = "running"]
  /\ serverName' = [serverName EXCEPT ![d] =
       IF gateway[d].member = "" THEN "none" ELSE gateway[d].member]
  /\ serverClustered' = [serverClustered EXCEPT ![d] = gateway[d].member # ""]
  /\ clusterTasks' = [clusterTasks EXCEPT ![d] = gateway[d].member # ""]
  /\ gateway' = [gateway EXCEPT ![d].up = TRUE]
  /\ UNCHANGED <<clusterPutDisableMu, h, putOps, lastPut>>

\* --------------------------------- the specification of PUT /1.0/cluster
InitPut ==
  /\ members = [n \in Names |-> NoRow]
  /\ serverClustered = [d \in Daemons |-> FALSE]
  /\ InitNodes({})
  /\ systemdSocketActivated["n2"] = FALSE
  /\ tokenOps = <<>>
  /\ clusterNodesPostMu = [d \in Daemons |-> NoHolder]
  /\ tokenReq = [i \in TokenReqIds |-> IdleTokenReq]
  /\ tokenResult = NoTokenResult
  /\ InitIdle

PutSteps ==
  \/ \E o \in PutOpIds, outcome \in {"ok", "bootstrap", "network"} :
       clusterPutBootstrapRun(o, outcome)
  \/ \E o \in PutOpIds, outcome \in {"ok", "setup", "accept", "group", "config"} :
       clusterPutJoinRun(o, outcome)

DisableSteps ==
  \/ \E i \in HandlerIds, outcome \in {"ok", "close", "remove", "load", "reset"} :
       clusterPutDisableReset(i, outcome)
  \/ \E i \in HandlerIds : clusterPutDisableKill(i)
  \/ \E i \in HandlerIds : clusterPutDisableRespond(i)
  \/ \E i \in HandlerIds, ok \in BOOLEAN : clusterPutDisableExit(i, ok)

NextPut ==
  \/ /\ \E req \in PutBodies, outcome \in {"ok", "config", "address", "create"} :
          clusterPut("n1", 0, req, outcome)
     /\ UNCHANGED putFrame
  \/ PutSteps /\ UNCHANGED putFrame
  \/ DisableSteps /\ UNCHANGED putFrame
  \/ DaemonStart("n1") /\ UNCHANGED putFrame

SpecPut == InitPut /\ [][NextPut]_vars

\* ----------------------------- the run function of a join, step by step
\* The run function of clusterPutJoin with the steps of a run in separate
\* actions, so that operations of the same daemon interleave. A run keeps in
\* its record oldServerName, the hooks its reverter holds (in the order they
\* were added) and the values of the server name and of the clustered flag
\* it found before it set them. The record of the run that ended last is
\* kept under LastJoin, with the hooks the reverter ran, the members whose
\* pending entry DeletePendingClusterMember asked the cluster to delete, and
\* the server name, the clustered flag and the cluster tasks as the run left
\* them.
JoinNames == {"n1", "n2"}
\* The requests: to bootstrap a cluster as n1, or to join the cluster of n3
\* as n2. They carry the cluster certificate and the server address, so that
\* a join request is refused for the clustered flag only.
JoinBodies ==
  { b \in [server_name : JoinNames, enabled : {TRUE}, cluster_address : {"", "addr-n3"},
            cluster_certificate : {TRUE}, server_address : {TRUE}] :
      b.server_name = "n1" <=> b.cluster_address = "" }
BeforeJoin(d) == [serverName |-> serverName[d], serverClustered |-> serverClustered[d]]
NoJoinRun ==
  [pc |-> "none", name |-> "", oldServerName |-> "none", hooks |-> <<>>,
   reverted |-> <<>>, deleted |-> <<>>,
   before |-> [serverName |-> "none", serverClustered |-> FALSE],
   after |-> [serverName |-> "none", serverClustered |-> FALSE, clusterTasks |-> FALSE]]
\* The record after those of the operations.
LastJoin == MaxInFlight + 1
JoinRunIds == PutOpIds \cup {LastJoin}
\* The run of operation o ends: its record becomes the last one.
EndJoinRun(o, pc, run) ==
  /\ activate' = [activate EXCEPT ![o] = NoJoinRun,
       ![LastJoin] = [activate[o] EXCEPT !.pc = pc, !.name = putOps[o].name,
          !.reverted = run,
          !.deleted = IF \E k \in 1..Len(run) : run[k] = "pending"
                        THEN <<putOps[o].name>> ELSE <<>>,
          !.after = [serverName |-> serverName'[putOps[o].d],
                     serverClustered |-> serverClustered'[putOps[o].d],
                     clusterTasks |-> clusterTasks'[putOps[o].d]]]]
  /\ EndPutOp(o)

\* reverter.Fail(): the hooks run, the one added last first.
RECURSIVE Reverse(_)
Reverse(s) == IF s = <<>> THEN <<>> ELSE Append(Reverse(Tail(s)), Head(s))
reverterFail(hooks) == Reverse(hooks)
reverterSuccess(hooks) == <<>>

\* What the hooks in run do to the daemon of operation o:
\*   name   : d.serverName = oldServerName; d.serverClustered = false
\*   pending: client.DeletePendingClusterMember(req.ServerName, true), whose
\*            error is logged
\*   tasks  : d.stopClusterTasks()
clusterPutJoinRevert(o, hooks, oldServerName, gw) ==
  LET d == putOps[o].d
      run == reverterFail(hooks)
      ran(hook) == \E k \in 1..Len(run) : run[k] = hook
  IN /\ serverName' = [serverName EXCEPT ![d] = IF ran("name") THEN oldServerName ELSE @]
     /\ serverClustered' = [serverClustered EXCEPT ![d] = IF ran("name") THEN FALSE ELSE @]
     /\ clusterTasks' = [clusterTasks EXCEPT ![d] = IF ran("tasks") THEN FALSE ELSE @]
     /\ gateway' = gw
     /\ EndJoinRun(o, "failed", run)

\* The steps up to the update of the server name: trust, the connection to
\* the cluster, the member name check, the connection to the local server;
\* then oldServerName is read and the name and the clustered flag are set,
\* and the first hook added.
clusterPutJoinBegin(o, ok) ==
  /\ putOps[o].kind = "join"
  /\ activate[o].pc = "none"
  /\ LET d == putOps[o].d
     IN IF ok
          THEN /\ activate' = [activate EXCEPT ![o] =
                    [NoJoinRun EXCEPT !.pc = "named", !.oldServerName = serverName[d],
                                      !.hooks = <<"name">>, !.before = BeforeJoin(d)]]
               /\ serverName' = [serverName EXCEPT ![d] = putOps[o].name]
               /\ serverClustered' = [serverClustered EXCEPT ![d] = TRUE]
               /\ UNCHANGED <<putOps, gateway, clusterTasks>>
          ELSE /\ UNCHANGED <<serverName, serverClustered, gateway, clusterTasks>>
               /\ activate' = [activate EXCEPT ![LastJoin] =
                    [NoJoinRun EXCEPT !.pc = "failed", !.name = putOps[o].name,
                       !.before = BeforeJoin(d),
                       !.after = [serverName |-> serverName[d],
                                  serverClustered |-> serverClustered[d],
                                  clusterTasks |-> clusterTasks[d]]]]
               /\ EndPutOp(o)
  /\ UNCHANGED <<daemon, clusterPutDisableMu, h, lastPut>>

\* clusterInitMember and the transaction reading the storage pools and the
\* networks; then the hook deleting the pending member is added.
clusterPutJoinInit(o, ok) ==
  /\ putOps[o].kind = "join"
  /\ activate[o].pc = "named"
  /\ IF ok
       THEN /\ activate' = [activate EXCEPT ![o].pc = "accepting",
                              ![o].hooks = Append(@, "pending")]
            /\ UNCHANGED <<putOps, serverName, serverClustered, gateway, clusterTasks>>
       ELSE clusterPutJoinRevert(o, activate[o].hooks, activate[o].oldServerName,
                                 gateway)
  /\ UNCHANGED <<daemon, clusterPutDisableMu, h, lastPut>>

\* The accept request, the certificates, cluster.Join and
\* AddNodeToClusterGroup, then startClusterTasks and its hook.
\*   accept: a step up to cluster.Join fails
\*   group : AddNodeToClusterGroup fails, after cluster.Join
clusterPutJoinAccept(o, outcome) ==
  /\ putOps[o].kind = "join"
  /\ activate[o].pc = "accepting"
  /\ outcome \in {"ok", "accept", "group"}
  /\ outcome # "accept" => JoinAllowed(putOps[o].d)
  /\ LET d == putOps[o].d
         joined == [gateway EXCEPT ![d].member = putOps[o].name]
     IN CASE outcome = "ok" ->
               /\ gateway' = joined
               /\ clusterTasks' = [clusterTasks EXCEPT ![d] = TRUE]
               /\ activate' = [activate EXCEPT ![o].pc = "started",
                                 ![o].hooks = Append(@, "tasks")]
               /\ UNCHANGED <<putOps, serverName, serverClustered>>
          [] outcome = "accept" ->
               clusterPutJoinRevert(o, activate[o].hooks, activate[o].oldServerName,
                                    gateway)
          [] outcome = "group" ->
               clusterPutJoinRevert(o, activate[o].hooks, activate[o].oldServerName,
                                    joined)
  /\ UNCHANGED <<daemon, clusterPutDisableMu, h, lastPut>>

\* The steps after startClusterTasks whose error run returns (the
\* configuration, the update triggers, the connection to the cluster), then
\* reverter.Success().
clusterPutJoinFinish(o, ok) ==
  /\ putOps[o].kind = "join"
  /\ activate[o].pc = "started"
  /\ IF ok
       THEN /\ UNCHANGED <<serverName, serverClustered, gateway, clusterTasks>>
            /\ EndJoinRun(o, "done", reverterSuccess(activate[o].hooks))
       ELSE clusterPutJoinRevert(o, activate[o].hooks, activate[o].oldServerName,
                                 gateway)
  /\ UNCHANGED <<daemon, clusterPutDisableMu, h, lastPut>>

joinFrame == <<tokenOnlyVars, systemdSocketActivated, clusterMembershipMutex, raft,
               lastResponse, nodesRoles, handoverCall, leaderAddress, infoVars,
               evacuation, renameCall>>

InitJoin ==
  /\ members = [n \in Names |-> NoRow]
  /\ serverClustered = [d \in Daemons |-> FALSE]
  /\ InitNodes({})
  /\ systemdSocketActivated = [d \in Daemons |-> FALSE]
  /\ tokenOps = <<>>
  /\ clusterNodesPostMu = [d \in Daemons |-> NoHolder]
  /\ tokenReq = [i \in TokenReqIds |-> IdleTokenReq]
  /\ tokenResult = NoTokenResult
  /\ raft = NoRaft
  /\ lastResponse = NoResponse
  /\ nodesRoles = [n \in Names |-> {}]
  /\ handoverCall = [d \in Daemons |-> NoCall]
  /\ leaderAddress = ""
  /\ nodesInfo = [n \in Names |-> NoInfo]
  /\ updateCall = [u \in UpdateIds |-> NoUpdate]
  /\ lastEtag = <<>>
  /\ evacuation = NoEvacuation
  /\ renameCall = [r \in RenameIds |-> NoRename]
  /\ activate = [o \in JoinRunIds |-> NoJoinRun]

JoinRequest ==
  \E req \in JoinBodies, outcome \in {"ok", "create"} :
    clusterPut("n1", 0, req, outcome)

NextJoin ==
  \/ JoinRequest /\ UNCHANGED <<joinFrame, activate>>
  \/ /\ \E o \in PutOpIds, outcome \in {"ok", "bootstrap", "network"} :
          clusterPutBootstrapRun(o, outcome)
     /\ UNCHANGED <<joinFrame, activate>>
  \/ \E o \in PutOpIds, ok \in BOOLEAN : clusterPutJoinBegin(o, ok) /\ UNCHANGED joinFrame
  \/ \E o \in PutOpIds, ok \in BOOLEAN : clusterPutJoinInit(o, ok) /\ UNCHANGED joinFrame
  \/ \E o \in PutOpIds, outcome \in {"ok", "accept", "group"} :
       clusterPutJoinAccept(o, outcome) /\ UNCHANGED joinFrame
  \/ \E o \in PutOpIds, ok \in BOOLEAN : clusterPutJoinFinish(o, ok) /\ UNCHANGED joinFrame

SpecJoin == InitJoin /\ [][NextJoin]_vars

\* ============================================== cluster member handlers
\* The Raft leader of the cluster; it stays the leader.
LeaderName == "n1"
IsLeader(d) == d = LeaderName

SyncResponse == "SyncResponse 200"
PendingRow == [state |-> "pending", offline |-> FALSE]

memberFrame ==
  <<serverClustered, tokenOps, clusterNodesPostMu, tokenReq, tokenResult, serverName,
    gateway, clusterTasks, daemon, systemdSocketActivated, putOps, lastPut>>

\* Daemon d serves cluster requests: it runs and its database is in a cluster.
Serving(d) == daemon[d] = "running" /\ gateway[d].member # ""

\* d.clusterMembershipMutex.Lock()
MembershipMuFree(d) == clusterMembershipMutex[d] = NoHolder

\* The membership mutex while handler i has a request to another member in
\* flight: the deferred Unlock has not run.
MuReleasedForRpc(i) == [clusterMembershipMutex EXCEPT ![h[i].d] = NoHolder]
MuAcrossRpc(i) == clusterMembershipMutex

\* Handler i returns r: the deferred Unlock of the membership mutex runs.
Return(i, r) ==
  /\ h' = Collect([h EXCEPT ![i] = Respond(i, r)])
  /\ clusterMembershipMutex' =
       [clusterMembershipMutex EXCEPT ![h[i].d] = IF @ = i THEN NoHolder ELSE @]

NewHandler(kind, d, parent, name, force, pc) ==
  [FreeHandler EXCEPT !.kind = kind, !.d = d, !.pc = pc, !.parent = parent,
     !.name = name, !.force = force,
     !.origin = IF parent = 0 THEN 0
                ELSE IF h[parent].origin = 0 THEN parent ELSE h[parent].origin]

\* The table with a new handler; the caller, if any, now has a child.
WithNew(rec) ==
  LET new == FreeHandlerId
  IN [j \in HandlerIds |->
        IF j = new THEN rec
        ELSE IF j = rec.parent THEN [h[j] EXCEPT !.child = new]
        ELSE h[j]]

\* tx.GetRaftNodes: the members of the Raft configuration; of them, those the
\* leader promotes before it removes itself from a cluster of two.
GetRaftNodes == {n \in Names : raft[n] # "none"}
RemainingToPromote == {n \in GetRaftNodes : n # LeaderName /\ raft[n] # "voter"}

\* clusterNodeDelete up to its lock. A member that is not the leader and is
\* asked to remove itself takes clusterPutDisableMu and starts the goroutine
\* that releases it once the request is finished; the leader takes the
\* membership mutex. The request comes from a client (parent = 0) or is the
\* one handler parent forwarded. The leader asked to remove itself from a
\* cluster of two Raft nodes first promotes the other node to voter, with an
\* assign request.
clusterNodeDelete(d, parent, name, force) ==
  /\ Serving(d)
  /\ parent = 0 => HasFreeHandler
  /\ parent # 0 => /\ RpcPending(parent, d, "forwarded")
                   /\ name = h[parent].name
                   /\ force = h[parent].force
  /\ IF ~IsLeader(d)
       THEN IF gateway[d].member = name
              THEN /\ DisableMuFree(d)
                   /\ clusterPutDisableMu' = [clusterPutDisableMu EXCEPT ![d] = FreeHandlerId]
                   /\ h' = WithNew([NewHandler("delete", d, parent, name, force, "forward")
                                      EXCEPT !.relG = "wait",
                                             !.nodes = Cardinality(GetRaftNodes)])
                   /\ UNCHANGED clusterMembershipMutex
              ELSE /\ h' = WithNew([NewHandler("delete", d, parent, name, force, "forward")
                                      EXCEPT !.nodes = Cardinality(GetRaftNodes)])
                   /\ UNCHANGED <<clusterPutDisableMu, clusterMembershipMutex>>
       ELSE /\ MembershipMuFree(d)
            /\ clusterMembershipMutex' = [clusterMembershipMutex EXCEPT ![d] = FreeHandlerId]
            /\ IF name = LeaderName /\ Cardinality(GetRaftNodes) = 2
                    /\ RemainingToPromote # {}
                 THEN h' = WithNew([NewHandler("delete", d, parent, name, force,
                                               "assign remaining")
                                      EXCEPT !.rpc = CHOOSE n \in RemainingToPromote : TRUE,
                                             !.role = "voter"])
                 ELSE h' = WithNew(NewHandler("delete", d, parent, name, force, "locked"))
            /\ UNCHANGED clusterPutDisableMu
  /\ UNCHANGED <<members, memberFrame>>

\* The member connects to the leader and forwards the delete request.
clusterNodeDeleteForward(i, ok) ==
  /\ h[i].kind = "delete"
  /\ h[i].pc = "forward"
  /\ daemon[h[i].d] = "running"
  /\ IF ok
       THEN /\ h' = [h EXCEPT ![i].pc = "forwarded", ![i].rpc = LeaderName]
            /\ UNCHANGED clusterMembershipMutex
       ELSE Return(i, SmartError)
  /\ UNCHANGED <<members, clusterPutDisableMu, memberFrame>>

\* The goroutine of a member removing itself: once the request is finished,
\* clusterPutDisableMu is released.
SelfRemovalLockKept(i) ==
  /\ h[i].relG = "wait"
  /\ daemon[h[i].d] = "running"
  /\ RequestDone(i)
  /\ h' = Collect([h EXCEPT ![i].relG = "done"])
  /\ UNCHANGED <<members, clusterPutDisableMu, clusterMembershipMutex, memberFrame>>
ReleaseSelfRemovalLock(i) ==
  /\ h[i].relG = "wait"
  /\ daemon[h[i].d] = "running"
  /\ RequestDone(i)
  /\ clusterPutDisableMu' = [clusterPutDisableMu EXCEPT ![h[i].d] = NoHolder]
  /\ h' = Collect([h EXCEPT ![i].relG = "done"])
  /\ UNCHANGED <<members, clusterMembershipMutex, memberFrame>>

\* Where clusterNodeDelete goes after autoSyncImages and cluster.Leave: it
\* returns the error (of the image sync when the removal is not forced, of
\* cluster.Leave, or of the connection to the departing member), goes on to
\* cluster.Purge when the removal is forced, else to the clean-up on the
\* departing member.
clusterNodeDeletePurgesAnyway(outcome, force) ==
  IF force THEN "purge"
  ELSE IF outcome # "ok" THEN "error" ELSE "cleanup"
clusterNodeDeleteForcedCleanup(outcome, force) ==
  IF outcome # "ok" THEN "error" ELSE "cleanup"
clusterNodeDeleteAfterLeave(outcome, force) ==
  IF outcome # "ok" THEN "error"
  ELSE IF force THEN "purge"
  ELSE "cleanup"

\* On the leader: autoSyncImages and cluster.Leave, then the connection to the
\* departing member unless the removal is forced.
clusterNodeDeleteLeave(i, outcome) ==
  /\ h[i].kind = "delete"
  /\ h[i].pc = "locked"
  /\ outcome \in {"ok", "sync", "leave", "connect"}
  /\ outcome = "sync" => ~h[i].force
  /\ outcome \in {"ok", "connect"} => members[h[i].name].state \in {"created", "evacuated"}
  /\ outcome = "connect" => ~h[i].force
  /\ CASE clusterNodeDeleteAfterLeave(outcome, h[i].force) = "error" ->
            Return(i, SmartError)
       [] clusterNodeDeleteAfterLeave(outcome, h[i].force) = "purge" ->
            /\ h' = [h EXCEPT ![i].pc = "purge"]
            /\ UNCHANGED clusterMembershipMutex
       [] clusterNodeDeleteAfterLeave(outcome, h[i].force) = "cleanup" ->
            /\ h' = [h EXCEPT ![i].pc = "cleanup", ![i].rpc = h[i].name]
            /\ clusterMembershipMutex' = MuAcrossRpc(i)
  /\ UNCHANGED <<members, clusterPutDisableMu, memberFrame>>

\* The networks and storage pools of the departing member are deleted on it.
clusterNodeDeleteCleanup(i, ok) ==
  /\ h[i].kind = "delete"
  /\ h[i].pc = "cleanup"
  /\ ok => h[i].rpc \in Daemons /\ daemon[h[i].rpc] = "running"
  /\ IF ok
       THEN /\ h' = [h EXCEPT ![i].pc = "purge", ![i].rpc = ""]
            /\ UNCHANGED clusterMembershipMutex
       ELSE Return(i, SmartError)
  /\ UNCHANGED <<members, clusterPutDisableMu, memberFrame>>

\* cluster.Purge removes the member from the database; rebalanceMemberRoles
\* comes next.
clusterNodeDeletePurge(i, ok) ==
  /\ h[i].kind = "delete"
  /\ h[i].pc = "purge"
  /\ IF ok
       THEN /\ members' = [members EXCEPT ![h[i].name] = NoRow]
            /\ h' = [h EXCEPT ![i].pc = "rebalance"]
            /\ UNCHANGED clusterMembershipMutex
       ELSE /\ Return(i, SmartError)
            /\ UNCHANGED members
  /\ UNCHANGED <<clusterPutDisableMu, memberFrame>>

\* rebalanceMemberRoles returned in handler i, with or without an error. The
\* delete handler only logs the error, then goes on in clusterPutDisable when
\* the leader removed itself, else asks the member it removed to dissolve,
\* unless the removal is forced; the rebalance handler returns the error; the
\* raft-node handler logs it and returns.
RebalanceErrorReturned(kind, failed) ==
  IF failed THEN SmartError
  ELSE IF kind = "delete" THEN EmptySyncResponse ELSE SyncResponse
\* What the caller answers once rebalanceMemberRoles returned, when it goes
\* on to nothing else: the rebalance handler returns the error, the delete
\* and raft-node handlers only log it.
RebalanceResponse(kind, failed) ==
  CASE kind = "rebalance" -> IF failed THEN SmartError ELSE SyncResponse
    [] kind = "raftdelete" -> SyncResponse
    [] kind = "delete" -> EmptySyncResponse
RebalanceReturns(i, failed, connectOK) ==
  CASE h[i].kind = "rebalance" ->
         /\ connectOK
         /\ Return(i, RebalanceResponse(h[i].kind, failed))
    [] h[i].kind = "raftdelete" ->
         /\ connectOK
         /\ Return(i, RebalanceResponse(h[i].kind, failed))
    [] h[i].kind = "delete" ->
         IF h[i].name = gateway[h[i].d].member
           THEN /\ connectOK
                /\ h' = [h EXCEPT ![i].pc = "disable", ![i].rpc = "", ![i].role = "",
                                  ![i].probed = ""]
                /\ UNCHANGED clusterMembershipMutex
         ELSE IF h[i].force
           THEN connectOK /\ Return(i, RebalanceResponse(h[i].kind, failed))
         ELSE IF connectOK
           THEN /\ h' = [h EXCEPT ![i].pc = "dissolve", ![i].rpc = h[i].name,
                                   ![i].role = "", ![i].probed = ""]
                /\ clusterMembershipMutex' = MuAcrossRpc(i)
         ELSE Return(i, SmartError)

RebalanceKinds == {"delete", "rebalance", "raftdelete"}

\* The field probed of a handler is the member cluster.HasConnectivity last
\* found reachable for it, "" when it probed none.
\* One round of the loop of rebalanceMemberRoles: cluster.Rebalance names no
\* member (nothing) or fails (error), or it names a member and its new role.
\* When the role is not spare, HasConnectivity finds the member unreachable
\* and the function returns (unreachable), or reachable, and changeMemberRole
\* sends it an assign request (promote). When the role is spare, an
\* unreachable member is demoted at once with DemoteOfflineNode (demote, which
\* can fail) and a reachable one gets an assign request (demote reachable).
\* Before the first round the function returns nil when the daemon is
\* shutting down (shutdown).
ShuttingDown(d) == daemon[d] = "shutting down"
rebalanceMemberRolesNoShutdownCheck(i, outcome) == outcome # "shutdown"
rebalanceMemberRolesShutdown(i, outcome) ==
  IF ShuttingDown(h[i].d) /\ h[i].rounds = 0 THEN outcome = "shutdown"
  ELSE outcome # "shutdown"
RoundsCapped(i, outcome) ==
  outcome \in {"demote", "promote", "demote reachable"} => h[i].rounds < MaxRounds
rebalanceMemberRoles(i, outcome, target, role, connectOK) ==
  /\ h[i].kind \in RebalanceKinds
  /\ h[i].pc = "rebalance"
  /\ outcome \in {"nothing", "error", "unreachable", "demote", "demote failed", "promote",
                  "demote reachable", "shutdown"}
  /\ rebalanceMemberRolesShutdown(i, outcome)
  /\ outcome \in {"demote", "promote", "demote reachable"} => h[i].rounds < MaxRoleChanges
  /\ role = (CASE outcome \in {"promote", "unreachable"} -> role
              [] outcome \in {"demote", "demote failed", "demote reachable"} -> "spare"
              [] OTHER -> "")
  /\ outcome \in {"promote", "unreachable"} => role \in RaftRoles \ {"spare"}
  /\ outcome \in {"nothing", "error", "shutdown"} => target = LeaderName
  /\ CASE outcome \in {"nothing", "unreachable", "shutdown"} ->
            RebalanceReturns(i, FALSE, connectOK)
       [] outcome \in {"error", "demote failed"} -> RebalanceReturns(i, TRUE, connectOK)
       [] outcome = "demote" ->
            /\ connectOK
            /\ h' = [h EXCEPT ![i].rounds = @ + 1]
            /\ UNCHANGED clusterMembershipMutex
       [] outcome \in {"promote", "demote reachable"} ->
            /\ connectOK
            /\ members[target].state \in {"created", "evacuated"}
            /\ h' = [h EXCEPT ![i].pc = "assign", ![i].rpc = target, ![i].rounds = @ + 1,
                              ![i].role = role, ![i].probed = target]
            /\ clusterMembershipMutex' = MuAcrossRpc(i)
  /\ UNCHANGED <<members, clusterPutDisableMu, memberFrame>>

\* The members whose daemon the model does not follow answer the requests
\* sent to them, or fail to.
AnswersRpc(n) == n \in Daemons => daemon[n] = "running"

\* What the caller of changeMemberRole returns when the call returned ("" when
\* it goes on): the handover returns the error of the promotion, and after
\* the demotion the error or success; the leader removing itself returns the
\* error of the promotion of the remaining member.
changeMemberRolePromotionIgnored(pc, ok) ==
  CASE pc = "assign target" -> ""
    [] pc = "assign losing" -> IF ok THEN SyncResponse ELSE SmartError
    [] pc = "assign remaining" -> IF ok THEN "" ELSE SmartError
    [] OTHER -> ""
changeMemberRoleResponse(pc, ok) ==
  CASE pc = "assign target" -> IF ok THEN "" ELSE SmartError
    [] pc = "assign losing" -> IF ok THEN SyncResponse ELSE SmartError
    [] pc = "assign remaining" -> IF ok THEN "" ELSE SmartError
    [] OTHER -> ""

\* internalClusterPostAssign on the member an assign request was sent to:
\* cluster.Assign, under no mutex. The sender goes on: the rebalance loop
\* starts again, the handover demotes the member handing over or returns,
\* the leader removing itself goes on to remove itself.
internalClusterPostAssign(i, ok, connectOK) ==
  /\ h[i].pc \in {"assign", "assign target", "assign losing", "assign remaining"}
  /\ ok => h[i].rpc \in Names /\ AnswersRpc(h[i].rpc)
  /\ CASE h[i].pc = "assign" ->
            IF ok
              THEN /\ connectOK
                   /\ h' = [h EXCEPT ![i].pc = "rebalance", ![i].rpc = "", ![i].role = "",
                                     ![i].probed = ""]
                   /\ UNCHANGED clusterMembershipMutex
              ELSE RebalanceReturns(i, TRUE, connectOK)
       [] h[i].pc = "assign target" ->
            /\ connectOK
            /\ IF changeMemberRoleResponse(h[i].pc, ok) = ""
                 THEN /\ h' = [h EXCEPT ![i].pc = "assign losing", ![i].rpc = h[i].name,
                                         ![i].role = "spare", ![i].probed = ""]
                      /\ clusterMembershipMutex' = MuAcrossRpc(i)
                 ELSE Return(i, changeMemberRoleResponse(h[i].pc, ok))
       [] h[i].pc = "assign losing" ->
            /\ connectOK
            /\ Return(i, changeMemberRoleResponse(h[i].pc, ok))
       [] h[i].pc = "assign remaining" ->
            /\ connectOK
            /\ IF changeMemberRoleResponse(h[i].pc, ok) = ""
                 THEN /\ h' = [h EXCEPT ![i].pc = "locked", ![i].rpc = "", ![i].role = ""]
                      /\ UNCHANGED clusterMembershipMutex
                 ELSE Return(i, changeMemberRoleResponse(h[i].pc, ok))
  /\ UNCHANGED <<members, clusterPutDisableMu, memberFrame>>

\* name == leaderInfo.Name && len(nodes) == 2, with the Raft nodes the handler
\* read before it forwarded the request: the member that forwarded the removal
\* of the leader is the only node left.
clusterNodeDeleteOnlyRemaining(i) ==
  h[i].pc = "forwarded" /\ h[i].name = LeaderName /\ h[i].nodes = 2

\* What the handler returns when the response of the nested request arrived,
\* "" when it goes on.
clusterNodeDeleteReturnResponse(i) ==
  IF h[h[i].child].resp # EmptySyncResponse THEN SmartError
  ELSE IF clusterNodeDeleteOnlyRemaining(i) THEN ""
  ELSE EmptySyncResponse

\* The response of the nested request arrived: the member's delete handler
\* (forwarded) and the leader's (dissolve) return success, or the error. The
\* member that is the only node left goes on to WaitLeadership instead.
clusterNodeDeleteReturn(i) ==
  /\ h[i].kind = "delete"
  /\ h[i].pc \in {"forwarded", "dissolve"}
  /\ daemon[h[i].d] = "running"
  /\ h[i].child # 0
  /\ h[h[i].child].parent = i
  /\ h[h[i].child].pc = "done"
  /\ IF clusterNodeDeleteReturnResponse(i) = ""
       THEN /\ h' = Collect([h EXCEPT ![i].pc = "wait leadership", ![i].rpc = "",
                                       ![i].child = 0])
            /\ UNCHANGED clusterMembershipMutex
       ELSE Return(i, clusterNodeDeleteReturnResponse(i))
  /\ UNCHANGED <<members, clusterPutDisableMu, memberFrame>>

\* d.gateway.WaitLeadership() returned in the member's delete handler: with
\* an error, which the handler returns, or because the member is the Raft
\* leader, which takes that it is a voter and the former leader has left.
clusterNodeDeleteWaitLeadership(i, ok) ==
  /\ h[i].kind = "delete"
  /\ h[i].pc = "wait leadership"
  /\ daemon[h[i].d] = "running"
  /\ ok => raft[gateway[h[i].d].member] = "voter" /\ raft[LeaderName] = "none"
  /\ IF ok
       THEN /\ h' = [h EXCEPT ![i].pc = "update certificates"]
            /\ UNCHANGED clusterMembershipMutex
       ELSE Return(i, SmartError)
  /\ UNCHANGED <<members, clusterPutDisableMu, memberFrame>>

\* s.UpdateCertificateCache(), then the response to the client.
clusterNodeDeleteUpdateCertificates(i) ==
  /\ h[i].kind = "delete"
  /\ h[i].pc = "update certificates"
  /\ daemon[h[i].d] = "running"
  /\ Return(i, EmptySyncResponse)
  /\ UNCHANGED <<members, clusterPutDisableMu, memberFrame>>

\* The nested request failed: the daemon it was sent to is gone, or stand-alone.
RpcFailed(i) ==
  /\ h[i].kind = "delete"
  /\ h[i].pc \in {"forwarded", "dissolve"}
  /\ daemon[h[i].d] = "running"
  /\ \/ h[i].child = 0 /\ daemon[h[i].rpc] # "running"
     \/ h[i].child = 0 /\ h[i].pc = "forwarded" /\ ~Serving(h[i].rpc)
     \/ h[i].child # 0 /\ h[h[i].child].parent # i
  /\ Return(i, SmartError)
  /\ UNCHANGED <<members, clusterPutDisableMu, memberFrame>>

\* s.LocalConfig.ClusterAddress() of daemon d, and the results of
\* s.Cluster.LeaderAddress(): an error, no known leader, the leader's address.
localClusterAddress(d) == Address(gateway[d].member)
LeaderLookups == {"error", "", Address(LeaderName)}
SyncResponseRedirect == "SyncResponseRedirect"

\* What internalClusterPostAccept answers before it takes the lock ("" when
\* it goes on): the quick check, then the leader lookup; a member that is not
\* the leader redirects the request to the leader.
internalClusterPostAcceptProxied(d, name, leader) ==
  IF name = "" THEN BadRequest
  ELSE IF leader = "error" THEN InternalError
  ELSE ""
internalClusterPostAcceptNotLeader(d, name, leader) ==
  IF name = "" THEN BadRequest
  ELSE IF leader = "error" THEN InternalError
  ELSE IF localClusterAddress(d) # leader
    THEN IF leader = "" THEN SmartError ELSE SyncResponseRedirect
  ELSE ""

\* internalClusterPostAccept up to its lock.
internalClusterPostAccept(d, name, leader) ==
  /\ Serving(d)
  /\ IF internalClusterPostAcceptNotLeader(d, name, leader) # ""
       THEN UNCHANGED <<h, clusterMembershipMutex>>
       ELSE /\ HasFreeHandler
            /\ MembershipMuFree(d)
            /\ clusterMembershipMutex' = [clusterMembershipMutex EXCEPT ![d] = FreeHandlerId]
            /\ h' = WithNew(NewHandler("accept", d, 0, name, FALSE, "locked"))
  /\ UNCHANGED <<members, clusterPutDisableMu, memberFrame>>

\* The storage pools and the networks of the cluster database. The config of
\* a pool has the keys size and source, that of a network mtu and parent;
\* source and parent are specific to a member.
ClusterPools ==
  { [name |-> "p1", driver |-> "dir", state |-> "created",
     config |-> [size |-> "1", source |-> "a"]],
    [name |-> "p2", driver |-> "zfs", state |-> "pending",
     config |-> [size |-> "1", source |-> "a"]] }
ClusterNetworks ==
  { [project |-> "default", name |-> "br0", type |-> "bridge", state |-> "created",
     config |-> [mtu |-> "1", parent |-> "a"]],
    [project |-> "default", name |-> "ovn0", type |-> "ovn", state |-> "created",
     config |-> [mtu |-> "1", parent |-> "a"]],
    [project |-> "default", name |-> "br1", type |-> "bridge", state |-> "pending",
     config |-> [mtu |-> "1", parent |-> "a"]] }
NodeSpecificStorageConfig == {"source"}
NodeSpecificNetworkConfig == {"parent"}

\* localUtil.CompareConfigs: the two configs agree on every key not excluded.
CompareConfigs(config1, config2, exclude) ==
  \A k \in (DOMAIN config1) \ exclude : config1[k] = config2[k]
\* db.StripNodeSpecificNetworkConfig
StripNodeSpecificNetworkConfig(config) ==
  [k \in (DOMAIN config) \ NodeSpecificNetworkConfig |-> config[k]]

\* tx.GetCreatedStoragePoolNames and tx.GetCreatedNetworkNamesByProject.
GetCreatedStoragePoolNames == {pool.name : pool \in {q \in ClusterPools : q.state = "created"}}
GetCreatedNetworks == {n \in ClusterNetworks : n.state = "created"}

\* The first of the entries S of a request list (0 when there is none): the
\* entry at which the inner loop of the checks sets found and stops.
FirstMatch(S) == IF S = {} THEN 0 ELSE CHOOSE k \in S : \A m \in S : k <= m

\* clusterCheckStoragePoolsMatch returns nil: every created pool is found in
\* the request, and the entry found has its driver and its config but for
\* the keys specific to a member.
clusterCheckStoragePoolsAnyDriver(reqPools) ==
  \A pool \in {q \in ClusterPools : q.name \in GetCreatedStoragePoolNames} :
    LET k == FirstMatch({j \in 1..Len(reqPools) : reqPools[j].name = pool.name})
    IN /\ k # 0
       /\ CompareConfigs(pool.config, reqPools[k].config, NodeSpecificStorageConfig)
clusterCheckStoragePoolsMatch(reqPools) ==
  \A pool \in {q \in ClusterPools : q.name \in GetCreatedStoragePoolNames} :
    LET k == FirstMatch({j \in 1..Len(reqPools) : reqPools[j].name = pool.name})
    IN /\ k # 0
       /\ pool.driver = reqPools[k].driver
       /\ CompareConfigs(pool.config, reqPools[k].config, NodeSpecificStorageConfig)

\* clusterCheckNetworksMatch returns nil: every created network that is not
\* an OVN network is found in the request under its project, and the entry
\* found has its type and its config but for the keys specific to a member.
clusterCheckNetworksMatch(reqNetworks) ==
  \A network \in GetCreatedNetworks :
    network.type = "ovn" \/
    LET k == FirstMatch({j \in 1..Len(reqNetworks) :
                           ~(\/ reqNetworks[j].name # network.name
                             \/ reqNetworks[j].project # network.project)})
    IN /\ k # 0
       /\ reqNetworks[k].type = network.type
       /\ CompareConfigs(StripNodeSpecificNetworkConfig(network.config),
                         StripNodeSpecificNetworkConfig(reqNetworks[k].config), {})

\* The accept requests the model draws from: the address of the joiner, its
\* storage pools (at most two entries; with two, of two drivers and in either
\* order) and its networks (at most one).
ReqPools ==
  { [name |-> "p1", driver |-> "dir", config |-> [size |-> "1", source |-> "a"]],
    [name |-> "p1", driver |-> "dir", config |-> [size |-> "1", source |-> "b"]],
    [name |-> "p1", driver |-> "dir", config |-> [size |-> "2", source |-> "a"]],
    [name |-> "p1", driver |-> "zfs", config |-> [size |-> "1", source |-> "a"]] }
ReqNetworks ==
  { [project |-> "default", name |-> "br0", type |-> "bridge",
     config |-> [mtu |-> "1", parent |-> "b"]],
    [project |-> "default", name |-> "br0", type |-> "bridge",
     config |-> [mtu |-> "2", parent |-> "a"]],
    [project |-> "default", name |-> "br0", type |-> "physical",
     config |-> [mtu |-> "1", parent |-> "a"]],
    [project |-> "other", name |-> "br0", type |-> "bridge",
     config |-> [mtu |-> "1", parent |-> "a"]] }
AcceptBodies ==
  [address : {"addr-n2", "addr-n3"},
   storage_pools : {<<>>} \cup {<<p>> : p \in ReqPools}
                     \cup {pq \in ReqPools \X ReqPools :
                            /\ pq[1].driver # pq[2].driver
                            /\ pq[1].config = pq[2].config
                            /\ pq[1].config = [size |-> "1", source |-> "a"]},
   networks : {<<>>} \cup {<<n>> : n \in ReqNetworks}]
\* A joiner whose pools and networks are those of the cluster, one with a
\* pool of another driver, one without the network.
AcceptBodiesFew ==
  [address : {"addr-n3"},
   storage_pools : {<<p>> : p \in {q \in ReqPools : q.config.size = "1"
                                                    /\ q.config.source = "a"}},
   networks : {<<>>, <<[project |-> "default", name |-> "br0", type |-> "bridge",
                        config |-> [mtu |-> "1", parent |-> "b"]]>>}]

\* cluster.Accept refuses a name or an address a member of the table has.
AcceptAllowed(tbl, name, address) ==
  /\ tbl[name] = NoRow
  /\ \A n \in Names : tbl[n] # NoRow => Address(n) # address

\* The response of internalClusterPostAccept once it holds the lock; outcome
\* names the call that fails for a reason the request does not show (the
\* database in one of the checks, cluster.Accept). The error of a check is
\* returned as it is, that of cluster.Accept as a bad request. On success the
\* response has the Raft nodes cluster.Accept returned and the network
\* private key.
internalClusterPostAcceptSmartError(tbl, name, req, outcome) ==
  IF outcome = "pools" \/ ~clusterCheckStoragePoolsMatch(req.storage_pools) THEN SmartError
  ELSE IF outcome = "networks" \/ ~clusterCheckNetworksMatch(req.networks) THEN SmartError
  ELSE IF outcome = "accept" \/ ~AcceptAllowed(tbl, name, req.address) THEN SmartError
  ELSE ""
internalClusterPostAcceptError(tbl, name, req, outcome) ==
  IF outcome = "pools" \/ ~clusterCheckStoragePoolsMatch(req.storage_pools) THEN SmartError
  ELSE IF outcome = "networks" \/ ~clusterCheckNetworksMatch(req.networks) THEN SmartError
  ELSE IF outcome = "accept" \/ ~AcceptAllowed(tbl, name, req.address) THEN BadRequest
  ELSE ""
internalClusterPostAcceptResponse(tbl, name, req, outcome) ==
  IF internalClusterPostAcceptError(tbl, name, req, outcome) # ""
    THEN [NoResponse EXCEPT !.kind = "accept", !.d = LeaderName, !.name = name,
                            !.resp = internalClusterPostAcceptError(tbl, name, req, outcome)]
  ELSE [kind |-> "accept", d |-> LeaderName, name |-> name, resp |-> SyncResponse,
        raft_nodes |-> raft, private_key |-> TRUE, url |-> ""]

\* The storage pool and network checks, then cluster.Accept, which adds the
\* new member as pending.
internalClusterPostAcceptRun(i, req, outcome) ==
  /\ h[i].kind = "accept"
  /\ h[i].pc = "locked"
  /\ outcome \in {"ok", "pools", "networks", "accept"}
  /\ LET r == internalClusterPostAcceptResponse(members, h[i].name, req, outcome)
     IN /\ members' = IF r.resp = SyncResponse
                        THEN [members EXCEPT ![h[i].name] = PendingRow]
                      ELSE members
        /\ Return(i, r.resp)
  /\ UNCHANGED <<clusterPutDisableMu, memberFrame>>

\* What internalClusterPostRebalance answers before it takes the lock (""
\* when it goes on): a member that is not the leader redirects the request.
internalClusterPostRebalanceNotLeader(d, leader) ==
  IF leader = "error" THEN InternalError
  ELSE IF localClusterAddress(d) # leader THEN SyncResponseRedirect
  ELSE ""

\* internalClusterPostRebalance up to its lock.
internalClusterPostRebalance(d, leader) ==
  /\ Serving(d)
  /\ IF internalClusterPostRebalanceNotLeader(d, leader) # ""
       THEN UNCHANGED <<h, clusterMembershipMutex>>
       ELSE /\ HasFreeHandler
            /\ MembershipMuFree(d)
            /\ clusterMembershipMutex' = [clusterMembershipMutex EXCEPT ![d] = FreeHandlerId]
            /\ h' = WithNew(NewHandler("rebalance", d, 0, "", FALSE, "rebalance"))
  /\ UNCHANGED <<members, clusterPutDisableMu, memberFrame>>

\* What internalClusterPostHandover answers before it takes the lock ("" when
\* it goes on); name is the member handing over, "" when the request has no
\* address. A member that is not the leader redirects the request.
internalClusterPostHandoverNotLeader(d, name, leader) ==
  IF name = "" THEN BadRequest
  ELSE IF leader = "error" THEN InternalError
  ELSE IF leader = "" THEN SmartError
  ELSE IF localClusterAddress(d) # leader THEN SyncResponseRedirect
  ELSE ""

\* internalClusterPostHandover up to its lock.
internalClusterPostHandover(d, name, leader) ==
  /\ Serving(d)
  /\ IF internalClusterPostHandoverNotLeader(d, name, leader) # ""
       THEN UNCHANGED <<h, clusterMembershipMutex>>
       ELSE /\ HasFreeHandler
            /\ MembershipMuFree(d)
            /\ clusterMembershipMutex' = [clusterMembershipMutex EXCEPT ![d] = FreeHandlerId]
            /\ h' = WithNew(NewHandler("handover", d, 0, name, FALSE, "locked"))
  /\ UNCHANGED <<members, clusterPutDisableMu, memberFrame>>

\* What internalClusterPostHandover returns after cluster.Handover ("" when
\* it goes on to changeMemberRole): the error, or success when there is no
\* member to promote.
internalClusterPostHandoverResponse(outcome) ==
  CASE outcome = "error" -> SmartError
    [] outcome = "none" -> SyncResponse
    [] outcome = "target" -> ""

\* cluster.Handover fails, finds no member to promote, or names the target,
\* to which changeMemberRole sends an assign request to promote it. The
\* handler itself probes no member: cluster.Handover names a member its own
\* connectivity check found reachable.
internalClusterPostHandoverRun(i, outcome, target) ==
  /\ h[i].kind = "handover"
  /\ h[i].pc = "locked"
  /\ outcome \in {"error", "none", "target"}
  /\ IF internalClusterPostHandoverResponse(outcome) # ""
       THEN Return(i, internalClusterPostHandoverResponse(outcome))
       ELSE /\ target # h[i].name
            /\ members[target].state \in {"created", "evacuated"}
            /\ h' = [h EXCEPT ![i].pc = "assign target", ![i].rpc = target,
                              ![i].role = "voter", ![i].probed = target]
            /\ clusterMembershipMutex' = MuAcrossRpc(i)
  /\ UNCHANGED <<members, clusterPutDisableMu, memberFrame>>

\* internalClusterRaftNodeDelete on the leader: cluster.RemoveRaftNode
\* succeeded and rebalanceMemberRoles starts; no mutex is taken. (When
\* RemoveRaftNode fails the handler returns the error and nothing changed.)
internalClusterRaftNodeDelete(d, name) ==
  /\ Serving(d)
  /\ IsLeader(d)
  /\ HasFreeHandler
  /\ h' = WithNew(NewHandler("raftdelete", d, 0, name, FALSE, "rebalance"))
  /\ UNCHANGED <<members, clusterMembershipMutex, clusterPutDisableMu, memberFrame>>

\* ------------------------------- the specification of the member handlers
InitMember ==
  /\ members = [n \in Names |-> IF n \in Daemons THEN [state |-> "created", offline |-> FALSE]
                                 ELSE NoRow]
  /\ serverClustered = [d \in Daemons |-> TRUE]
  /\ InitNodes(Daemons)
  /\ systemdSocketActivated[LeaderName] = FALSE
  /\ tokenOps = <<>>
  /\ clusterNodesPostMu = [d \in Daemons |-> NoHolder]
  /\ tokenReq = [i \in TokenReqIds |-> IdleTokenReq]
  /\ tokenResult = NoTokenResult
  /\ InitIdle

DeleteSteps ==
  \/ \E d \in Daemons, parent \in {0} \cup HandlerIds, name \in {"n2", "n3"}, force \in BOOLEAN :
       clusterNodeDelete(d, parent, name, force)
  \/ \E i \in HandlerIds, ok \in BOOLEAN : clusterNodeDeleteForward(i, ok)
  \/ \E i \in HandlerIds : ReleaseSelfRemovalLock(i)
  \/ \E i \in HandlerIds, outcome \in {"ok", "sync", "leave", "connect"} :
       clusterNodeDeleteLeave(i, outcome)
  \/ \E i \in HandlerIds, ok \in BOOLEAN : clusterNodeDeleteCleanup(i, ok)
  \/ \E i \in HandlerIds, ok \in BOOLEAN : clusterNodeDeletePurge(i, ok)
  \/ \E i \in HandlerIds : clusterNodeDeleteReturn(i)
  \/ \E i \in HandlerIds : RpcFailed(i)

LeaderSteps ==
  \/ internalClusterPostAccept(LeaderName, "n3", Address(LeaderName))
  \/ \E i \in HandlerIds, req \in AcceptBodiesFew,
        outcome \in {"ok", "pools", "networks", "accept"} :
       internalClusterPostAcceptRun(i, req, outcome)
  \/ internalClusterPostRebalance(LeaderName, Address(LeaderName))
  \/ internalClusterPostHandover(LeaderName, "n2", Address(LeaderName))
  \/ \E i \in HandlerIds, outcome \in {"error", "none", "target"}, target \in Daemons :
       internalClusterPostHandoverRun(i, outcome, target)
  \/ internalClusterRaftNodeDelete(LeaderName, "n2")
  \/ \E i \in HandlerIds, target \in Daemons, connectOK \in BOOLEAN,
        outcome \in {"nothing", "error", "unreachable", "demote", "demote failed", "promote"},
        role \in {"", "voter", "spare"} :
       rebalanceMemberRoles(i, outcome, target, role, connectOK) /\ RoundsCapped(i, outcome)
  \/ \E i \in HandlerIds, ok \in BOOLEAN, connectOK \in BOOLEAN :
       internalClusterPostAssign(i, ok, connectOK)

NextMember ==
  \/ DeleteSteps /\ UNCHANGED extVars
  \/ LeaderSteps /\ UNCHANGED extVars
  \/ /\ \E parent \in {0} \cup HandlerIds : clusterPut("n2", parent, UpdateClusterBody, "ok")
     /\ UNCHANGED putFrame
  \/ DisableSteps /\ UNCHANGED putFrame
  \/ DaemonStart("n2") /\ UNCHANGED putFrame

SpecMember == InitMember /\ [][NextMember]_vars

\* ========================================= a member removes itself
\* DELETE /1.0/cluster/members/n2 sent to n2 itself, or to the leader: n2
\* takes clusterPutDisableMu, forwards the request to the leader, and the
\* leader removes n2 and, unless the removal is forced, asks n2 to dissolve. The
\* connection to the leader can fail, the leader can return an error at any
\* step, and n2 can be stopped by the dissolve while its own request is on
\* its way back.
SelfRemoveRequest ==
  /\ \E d \in Daemons, force \in BOOLEAN : clusterNodeDelete(d, 0, "n2", force)
  /\ UNCHANGED extVars
SelfRemoveForward(i) ==
  /\ \E ok \in BOOLEAN : clusterNodeDeleteForward(i, ok)
  /\ UNCHANGED extVars
SelfRemoveRelease(i) ==
  /\ ReleaseSelfRemovalLock(i)
  /\ UNCHANGED extVars
\* The leader receives the request handler parent forwarded.
SelfRemoveReceive(parent) ==
  /\ \E force \in BOOLEAN : clusterNodeDelete(LeaderName, parent, "n2", force)
  /\ UNCHANGED extVars
SelfRemoveLeader(i) ==
  /\ \/ \E outcome \in {"ok", "sync", "leave", "connect"} : clusterNodeDeleteLeave(i, outcome)
     \/ \E ok \in BOOLEAN : clusterNodeDeleteCleanup(i, ok)
     \/ \E ok \in BOOLEAN : clusterNodeDeletePurge(i, ok)
     \/ \E outcome \in {"nothing", "error"}, connectOK \in BOOLEAN :
          rebalanceMemberRoles(i, outcome, LeaderName, "", connectOK)
  /\ UNCHANGED extVars
SelfRemoveReturn(i) ==
  /\ clusterNodeDeleteReturn(i) \/ RpcFailed(i)
  /\ UNCHANGED extVars
\* The member receives the dissolve request handler parent sent.
SelfRemoveDissolve(parent) ==
  /\ clusterPut("n2", parent, UpdateClusterBody, "ok")
  /\ UNCHANGED putFrame
SelfRemoveDisable(i) ==
  /\ \/ \E outcome \in {"ok", "close", "remove", "load", "reset"} :
          clusterPutDisableReset(i, outcome)
     \/ clusterPutDisableKill(i)
     \/ clusterPutDisableRespond(i)
  /\ UNCHANGED putFrame
SelfRemoveExit(i) ==
  /\ \E ok \in BOOLEAN : clusterPutDisableExit(i, ok)
  /\ UNCHANGED putFrame
NextSelfRemove ==
  \/ SelfRemoveRequest
  \/ \E i \in HandlerIds : SelfRemoveForward(i)
  \/ \E i \in HandlerIds : SelfRemoveRelease(i)
  \/ \E i \in HandlerIds : SelfRemoveReceive(i)
  \/ \E i \in HandlerIds : SelfRemoveLeader(i)
  \/ \E i \in HandlerIds : SelfRemoveReturn(i)
  \/ \E i \in HandlerIds : SelfRemoveDissolve(i)
  \/ \E i \in HandlerIds : SelfRemoveDisable(i)
  \/ \E i \in HandlerIds : SelfRemoveExit(i)
  \/ DaemonStart("n2") /\ UNCHANGED putFrame
SpecSelfRemove == InitMember /\ [][NextSelfRemove]_vars
\* Every goroutine runs on, every request sent is answered or fails, and a
\* handler or goroutine that waits for a mutex gets it when the mutex is
\* free again and again (sync.Mutex hands a starving waiter the lock).
SpecSelfRemoveFair ==
  /\ SpecSelfRemove
  /\ \A i \in HandlerIds :
       /\ WF_vars(SelfRemoveForward(i)) /\ WF_vars(SelfRemoveRelease(i))
       /\ SF_vars(SelfRemoveReceive(i)) /\ WF_vars(SelfRemoveLeader(i))
       /\ WF_vars(SelfRemoveReturn(i)) /\ WF_vars(SelfRemoveDissolve(i))
       /\ WF_vars(SelfRemoveDisable(i)) /\ SF_vars(SelfRemoveExit(i))

\* ========================================== Raft roles and the handlers
\* The calls into the cluster package change the Raft configuration; the
\* handlers above are followed together with these changes and with the
\* responses they return.
MaxVoters == 3
MaxStandBys == 2
Voters == {n \in Names : raft[n] = "voter"}
StandBys == {n \in Names : raft[n] = "stand-by"}
\* The members of the Raft configuration the leader's heartbeats reach.
Reachable == {n \in GetRaftNodes : members[n].state = "created" /\ ~members[n].offline}
Min(a, b) == IF a < b THEN a ELSE b
WantVoters ==
  LET m == Min(Cardinality(Reachable), MaxVoters)
  IN IF m = 0 THEN 1 ELSE IF m % 2 = 0 THEN m - 1 ELSE m
WantStandBys == Min(Cardinality(Reachable) - WantVoters, MaxStandBys)

\* cluster.Rebalance: the role changes the rebalance algorithm can ask for,
\* as pairs of a member and its new role, by the first rule that applies;
\* no pair when there is nothing to do.
clusterRebalance ==
  LET offlineVoters == {n \in Voters : members[n].offline}
      candidates == Reachable \ Voters
      standbys == candidates \cap StandBys
  IN IF offlineVoters # {} /\ candidates # {}
       THEN {<<n, "spare">> : n \in offlineVoters}
     ELSE IF Cardinality(Voters) < WantVoters /\ candidates # {}
       THEN {<<n, "voter">> : n \in (IF standbys # {} THEN standbys ELSE candidates)}
     ELSE IF Cardinality(Voters) > WantVoters
       THEN {<<n, "stand-by">> : n \in Voters \ {LeaderName}}
     ELSE IF Cardinality(StandBys) < WantStandBys
       THEN {<<n, "stand-by">> : n \in Reachable \ (Voters \cup StandBys)}
     ELSE IF Cardinality(StandBys) > WantStandBys
       THEN {<<n, "spare">> : n \in StandBys}
     ELSE {}

\* cluster.Handover: the members that can take the voter seat of the member
\* handing over, chosen as rebalance chooses a member to promote; none when
\* the member is not a voter.
clusterHandover(name) ==
  LET candidates == Reachable \ (Voters \cup {name})
      standbys == candidates \cap StandBys
  IN IF raft[name] # "voter" THEN {}
     ELSE IF standbys # {} THEN standbys ELSE candidates

\* cluster.Assign on the member the request was sent to, gateway's
\* DemoteOfflineNode and cluster.Leave on the leader.
clusterAssign(name, role) == [raft EXCEPT ![name] = role]
DemoteOfflineNode(name) == [raft EXCEPT ![name] = "spare"]
clusterLeave(name) == [raft EXCEPT ![name] = "none"]

\* The response r of a request is logged; a handler that goes on logs none.
Response(kind, d, resp) == [NoResponse EXCEPT !.kind = kind, !.d = d, !.resp = resp]
Logged(r) == lastResponse' = IF r.resp = "" THEN lastResponse ELSE r
rolesFrame == <<tokenOps, clusterNodesPostMu, tokenReq, tokenResult, nodesRoles, handoverVars, auxVars>>

\* The requests to the internal endpoints, on the leader and on the other
\* member.
EntrySteps ==
  \/ \E d \in Daemons, name \in {"", "n2", "n3"}, leader \in LeaderLookups :
       /\ internalClusterPostAccept(d, name, leader)
       /\ Logged(Response("accept", d, internalClusterPostAcceptNotLeader(d, name, leader)))
       /\ UNCHANGED <<raft, rolesFrame>>
  \/ \E d \in Daemons, leader \in LeaderLookups :
       /\ internalClusterPostRebalance(d, leader)
       /\ Logged(Response("rebalance", d, internalClusterPostRebalanceNotLeader(d, leader)))
       /\ UNCHANGED <<raft, rolesFrame>>
  \/ \E d \in Daemons, name \in {"", "n2", "n3"}, leader \in LeaderLookups :
       /\ internalClusterPostHandover(d, name, leader)
       /\ Logged(Response("handover", d, internalClusterPostHandoverNotLeader(d, name, leader)))
       /\ UNCHANGED <<raft, rolesFrame>>
  \/ \E name \in Names, force \in BOOLEAN :
       /\ name # LeaderName => force
       /\ clusterNodeDelete(LeaderName, 0, name, force)
       /\ UNCHANGED <<roleVars, handoverVars, auxVars>>

\* The handlers on the leader, under the membership mutex.
RoleSteps ==
  \/ \E i \in HandlerIds, req \in AcceptBodies, outcome \in {"ok", "pools", "networks", "accept"} :
       /\ outcome # "ok" => req \in AcceptBodiesFew /\ req.networks # <<>>
       /\ internalClusterPostAcceptRun(i, req, outcome)
       /\ Logged(internalClusterPostAcceptResponse(members, h[i].name, req, outcome))
       /\ UNCHANGED <<raft, nodesRoles, handoverVars, auxVars>>
  \/ \E i \in HandlerIds, outcome \in {"error", "none", "target"}, target \in Names :
       /\ internalClusterPostHandoverRun(i, outcome, target)
       /\ outcome = "target" => target \in clusterHandover(h[i].name)
       /\ outcome = "none" => clusterHandover(h[i].name) = {} /\ target = LeaderName
       /\ outcome = "error" => target = LeaderName
       /\ Logged(Response("handover", h[i].d, internalClusterPostHandoverResponse(outcome)))
       /\ UNCHANGED <<raft, nodesRoles, handoverVars, auxVars>>
  \/ \E i \in HandlerIds, target \in Names, role \in RaftRoles \cup {""},
        outcome \in {"nothing", "error", "unreachable", "demote", "demote failed", "promote",
                     "demote reachable"} :
       /\ rebalanceMemberRoles(i, outcome, target, role, TRUE)
       /\ RoundsCapped(i, outcome)
       /\ outcome = "nothing" <=> clusterRebalance = {}
       /\ outcome \notin {"nothing", "error"} => <<target, role>> \in clusterRebalance
       /\ raft' = IF outcome = "demote" THEN DemoteOfflineNode(target) ELSE raft
       /\ UNCHANGED <<lastResponse, nodesRoles, handoverVars, auxVars>>
  \/ \E i \in HandlerIds, ok \in BOOLEAN :
       /\ internalClusterPostAssign(i, ok, TRUE)
       /\ raft' = IF ok THEN clusterAssign(h[i].rpc, h[i].role) ELSE raft
       /\ Logged(Response(h[i].kind, h[i].d, changeMemberRoleResponse(h[i].pc, ok)))
       /\ UNCHANGED <<nodesRoles, handoverVars, auxVars>>
  \/ \E i \in HandlerIds, outcome \in {"ok", "sync", "leave", "connect"} :
       /\ clusterNodeDeleteLeave(i, outcome)
       /\ raft' = IF outcome \in {"ok", "connect"} THEN clusterLeave(h[i].name) ELSE raft
       /\ UNCHANGED <<lastResponse, nodesRoles, handoverVars, auxVars>>
  \/ \E i \in HandlerIds, ok \in BOOLEAN :
       clusterNodeDeleteCleanup(i, ok) /\ UNCHANGED <<roleVars, handoverVars, auxVars>>
  \/ \E i \in HandlerIds, ok \in BOOLEAN :
       clusterNodeDeletePurge(i, ok) /\ UNCHANGED <<roleVars, handoverVars, auxVars>>

\* clusterPutDisable called by the leader that removed itself: the deferred
\* Unlock of clusterNodeDelete runs when clusterPutDisable returned its
\* response, an error or the manual response.
InlineDisableSteps ==
  /\ DisableSteps
  /\ clusterMembershipMutex' =
       [d \in Daemons |->
          LET i == clusterMembershipMutex[d]
          IN IF i # NoHolder /\ (h'[i].kind = "free" \/ h'[i].pc \in {"killed", "done"})
               THEN NoHolder ELSE i]
  /\ UNCHANGED <<tokenOnlyVars, systemdSocketActivated, roleVars, handoverVars, auxVars>>

\* A cluster of two or three members led by n1; n3, when it is a member, can
\* be offline.
RaftInits ==
  { [n1 |-> "voter", n2 |-> "voter", n3 |-> "voter"],
    [n1 |-> "voter", n2 |-> "stand-by", n3 |-> "stand-by"],
    [n1 |-> "voter", n2 |-> "stand-by", n3 |-> "none"] }
InitRoles ==
  /\ raft \in RaftInits
  /\ \E off \in BOOLEAN :
       members = [n \in Names |-> IF raft[n] = "none" THEN NoRow
                                  ELSE [state |-> "created",
                                        offline |-> off /\ n = "n3"]]
  /\ serverClustered = [d \in Daemons |-> TRUE]
  /\ InitNodes(Daemons)
  /\ systemdSocketActivated = [d \in Daemons |-> FALSE]
  /\ tokenOps = <<>>
  /\ clusterNodesPostMu = [d \in Daemons |-> NoHolder]
  /\ tokenReq = [i \in TokenReqIds |-> IdleTokenReq]
  /\ tokenResult = NoTokenResult
  /\ lastResponse = NoResponse
  /\ nodesRoles = [n \in Names |-> {}]
  /\ handoverCall = [d \in Daemons |-> NoCall]
  /\ leaderAddress = ""
  /\ InitAux

NextRoles ==
  \/ EntrySteps
  \/ RoleSteps
  \/ InlineDisableSteps
  \/ DaemonStart(LeaderName) /\ UNCHANGED putFrame

SpecRoles == InitRoles /\ [][NextRoles]_vars

\* ============================================ the removal of the leader
\* The leader n1 is removed, on a request a client sent to it or to the other
\* member n2, which forwards it. The cluster has two Raft nodes, or three.
RemainingName == "n2"
removeFrame == <<tokenOps, clusterNodesPostMu, tokenReq, tokenResult, nodesRoles,
                 handoverVars, auxVars>>
InitRemove ==
  /\ raft \in RaftInits \cup {[n1 |-> "voter", n2 |-> "voter", n3 |-> "none"],
                             [n1 |-> "voter", n2 |-> "spare", n3 |-> "none"]}
  /\ members = [n \in Names |-> IF raft[n] = "none" THEN NoRow
                                 ELSE [state |-> "created", offline |-> FALSE]]
  /\ serverClustered = [d \in Daemons |-> TRUE]
  /\ InitNodes(Daemons)
  /\ systemdSocketActivated = [d \in Daemons |-> FALSE]
  /\ tokenOps = <<>>
  /\ clusterNodesPostMu = [d \in Daemons |-> NoHolder]
  /\ tokenReq = [i \in TokenReqIds |-> IdleTokenReq]
  /\ tokenResult = NoTokenResult
  /\ lastResponse = NoResponse
  /\ nodesRoles = [n \in Names |-> {}]
  /\ handoverCall = [d \in Daemons |-> NoCall]
  /\ leaderAddress = ""
  /\ InitAux

NextRemove ==
  \/ \E d \in Daemons, parent \in {0} \cup HandlerIds, force \in BOOLEAN :
       /\ clusterNodeDelete(d, parent, LeaderName, force)
       /\ UNCHANGED <<raft, lastResponse, removeFrame>>
  \/ /\ clusterNodeDelete(LeaderName, 0, "n3", TRUE)
     /\ UNCHANGED <<raft, lastResponse, removeFrame>>
  \/ \E i \in HandlerIds, ok \in BOOLEAN :
       /\ clusterNodeDeleteForward(i, ok)
       /\ Logged(Response("delete", h[i].d, IF ok THEN "" ELSE SmartError))
       /\ UNCHANGED <<raft, removeFrame>>
  \/ \E i \in HandlerIds, ok \in BOOLEAN :
       /\ internalClusterPostAssign(i, ok, TRUE)
       /\ raft' = IF ok THEN clusterAssign(h[i].rpc, h[i].role) ELSE raft
       /\ Logged(Response(h[i].kind, h[i].d, changeMemberRoleResponse(h[i].pc, ok)))
       /\ UNCHANGED removeFrame
  \/ \E i \in HandlerIds, outcome \in {"ok", "sync", "leave", "connect"} :
       /\ clusterNodeDeleteLeave(i, outcome)
       /\ raft' = IF outcome \in {"ok", "connect"} THEN clusterLeave(h[i].name) ELSE raft
       /\ UNCHANGED <<lastResponse, removeFrame>>
  \/ \E i \in HandlerIds, ok \in BOOLEAN :
       clusterNodeDeleteCleanup(i, ok) /\ UNCHANGED <<raft, lastResponse, removeFrame>>
  \/ \E i \in HandlerIds, ok \in BOOLEAN :
       clusterNodeDeletePurge(i, ok) /\ UNCHANGED <<raft, lastResponse, removeFrame>>
  \/ \E i \in HandlerIds, outcome \in {"nothing", "error"} :
       /\ rebalanceMemberRoles(i, outcome, LeaderName, "", TRUE)
       /\ UNCHANGED <<raft, lastResponse, removeFrame>>
  \/ InlineDisableSteps
  \/ \E i \in HandlerIds :
       /\ clusterNodeDeleteReturn(i)
       /\ Logged(Response("delete", h[i].d, clusterNodeDeleteReturnResponse(i)))
       /\ UNCHANGED <<raft, removeFrame>>
  \/ \E i \in HandlerIds, ok \in BOOLEAN :
       /\ clusterNodeDeleteWaitLeadership(i, ok)
       /\ Logged(Response("delete", h[i].d, IF ok THEN "" ELSE SmartError))
       /\ UNCHANGED <<raft, removeFrame>>
  \/ \E i \in HandlerIds :
       /\ clusterNodeDeleteUpdateCertificates(i)
       /\ Logged(Response("delete", h[i].d, EmptySyncResponse))
       /\ UNCHANGED <<raft, removeFrame>>
  \/ \E i \in HandlerIds :
       /\ RpcFailed(i)
       /\ Logged(Response("delete", h[i].d, SmartError))
       /\ UNCHANGED <<raft, removeFrame>>

SpecRemove == InitRemove /\ [][NextRemove]_vars

\* ============================================== a change of leadership
\* leaderAddress is the address of the Raft leader: n1 at first; Raft can
\* elect the voter n2 at any time, and then n1 is a follower. The requests
\* are sent to n1, which looks the leader up when a request arrives.
RaftLeaderIs(d) == leaderAddress = Address(d)
LeadershipMoves(n) ==
  /\ RaftLeaderIs(LeaderName)
  /\ n \in Daemons \ {LeaderName}
  /\ raft[n] = "voter"
  /\ leaderAddress' = Address(n)

\* The calls that fail with ErrNotLeader on a member that is not the leader:
\* cluster.Accept, cluster.Rebalance and cluster.Handover, which read and
\* write the Raft configuration through the gateway, DemoteOfflineNode and
\* cluster.Leave; outcome is the outcome of the handler step that makes the
\* call, failed the outcomes with which the call failed.
ErrNotLeader(d, outcome, failed) == outcome \notin failed => RaftLeaderIs(d)

leaderFrame == <<tokenOps, clusterNodesPostMu, tokenReq, tokenResult, nodesRoles,
                 handoverCall, auxVars>>
InitLeader ==
  /\ raft \in RaftInits
  /\ \E off \in BOOLEAN :
       members = [n \in Names |-> IF raft[n] = "none" THEN NoRow
                                  ELSE [state |-> "created",
                                        offline |-> off /\ n = "n3"]]
  /\ serverClustered = [d \in Daemons |-> TRUE]
  /\ InitNodes(Daemons)
  /\ systemdSocketActivated = [d \in Daemons |-> FALSE]
  /\ tokenOps = <<>>
  /\ clusterNodesPostMu = [d \in Daemons |-> NoHolder]
  /\ tokenReq = [i \in TokenReqIds |-> IdleTokenReq]
  /\ tokenResult = NoTokenResult
  /\ lastResponse = NoResponse
  /\ nodesRoles = [n \in Names |-> {}]
  /\ handoverCall = [d \in Daemons |-> NoCall]
  /\ leaderAddress = Address(LeaderName)
  /\ InitAux

NextLeader ==
  \/ \E n \in Daemons :
       LeadershipMoves(n) /\ UNCHANGED <<tokenVars, daemon, serverName, gateway,
                                         clusterTasks, systemdSocketActivated,
                                         clusterPutDisableMu, h, putOps, lastPut,
                                         clusterMembershipMutex, raft, lastResponse,
                                         nodesRoles, handoverCall, auxVars>>
  \/ /\ internalClusterPostAccept(LeaderName, "n3", leaderAddress)
     /\ Logged(Response("accept", LeaderName,
                         internalClusterPostAcceptNotLeader(LeaderName, "n3", leaderAddress)))
     /\ UNCHANGED <<raft, leaderAddress, leaderFrame>>
  \/ \E i \in HandlerIds, req \in AcceptBodiesFew,
        outcome \in {"ok", "pools", "networks", "accept"} :
       /\ internalClusterPostAcceptRun(i, req, outcome)
       /\ ErrNotLeader(h[i].d, outcome, {"pools", "networks", "accept"})
       /\ Logged(internalClusterPostAcceptResponse(members, h[i].name, req, outcome))
       /\ UNCHANGED <<raft, leaderAddress, leaderFrame>>
  \/ /\ internalClusterPostRebalance(LeaderName, leaderAddress)
     /\ Logged(Response("rebalance", LeaderName,
                         internalClusterPostRebalanceNotLeader(LeaderName, leaderAddress)))
     /\ UNCHANGED <<raft, leaderAddress, leaderFrame>>
  \/ /\ internalClusterPostHandover(LeaderName, "n2", leaderAddress)
     /\ Logged(Response("handover", LeaderName,
                         internalClusterPostHandoverNotLeader(LeaderName, "n2", leaderAddress)))
     /\ UNCHANGED <<raft, leaderAddress, leaderFrame>>
  \/ \E i \in HandlerIds, outcome \in {"error", "none", "target"}, target \in Names :
       /\ internalClusterPostHandoverRun(i, outcome, target)
       /\ ErrNotLeader(h[i].d, outcome, {"error"})
       /\ outcome = "target" => target \in clusterHandover(h[i].name)
       /\ outcome = "none" => clusterHandover(h[i].name) = {} /\ target = LeaderName
       /\ outcome = "error" => target = LeaderName
       /\ Logged(Response("handover", h[i].d, internalClusterPostHandoverResponse(outcome)))
       /\ UNCHANGED <<raft, leaderAddress, leaderFrame>>
  \/ \E name \in {"n2", "n3"} :
       /\ RaftLeaderIs(LeaderName)
       /\ clusterNodeDelete(LeaderName, 0, name, TRUE)
       /\ UNCHANGED <<raft, lastResponse, leaderAddress, leaderFrame>>
  \/ \E i \in HandlerIds, outcome \in {"ok", "leave"} :
       /\ clusterNodeDeleteLeave(i, outcome)
       /\ ErrNotLeader(h[i].d, outcome, {"leave"})
       /\ raft' = IF outcome = "ok" THEN clusterLeave(h[i].name) ELSE raft
       /\ UNCHANGED <<lastResponse, leaderAddress, leaderFrame>>
  \/ \E i \in HandlerIds, ok \in BOOLEAN :
       /\ clusterNodeDeletePurge(i, ok)
       /\ UNCHANGED <<raft, lastResponse, leaderAddress, leaderFrame>>
  \/ \E i \in HandlerIds, target \in Names, role \in RaftRoles \cup {""},
        outcome \in {"nothing", "error", "unreachable", "demote", "demote failed", "promote",
                     "demote reachable"} :
       /\ rebalanceMemberRoles(i, outcome, target, role, TRUE)
       /\ RoundsCapped(i, outcome)
       /\ ErrNotLeader(h[i].d, outcome, {"error", "demote failed"})
       /\ outcome = "nothing" <=> clusterRebalance = {}
       /\ outcome \notin {"nothing", "error"} => <<target, role>> \in clusterRebalance
       /\ raft' = IF outcome = "demote" THEN DemoteOfflineNode(target) ELSE raft
       /\ UNCHANGED <<lastResponse, leaderAddress, leaderFrame>>
  \/ \E i \in HandlerIds, ok \in BOOLEAN :
       /\ internalClusterPostAssign(i, ok, TRUE)
       /\ raft' = IF ok THEN clusterAssign(h[i].rpc, h[i].role) ELSE raft
       /\ Logged(Response(h[i].kind, h[i].d, changeMemberRoleResponse(h[i].pc, ok)))
       /\ UNCHANGED <<leaderAddress, leaderFrame>>

SpecLeader == InitLeader /\ [][NextLeader]_vars

\* ================================================ the loop of rebalance
\* rebalanceMemberRoles in the rebalance handler of the leader, from any Raft
\* configuration led by n1 and any view of who is offline; the daemon can
\* start shutting down at any time. Every assign and demote call returns.
Shutdown(d) ==
  /\ daemon[d] = "running"
  /\ daemon' = [daemon EXCEPT ![d] = "shutting down"]

\* The outcomes of a round with which the loop ends, and those with which it
\* ends with an error.
RoundFailed(outcome) == outcome \in {"error", "demote failed"}
RoundEnds(outcome) == outcome \in {"nothing", "unreachable", "shutdown", "error", "demote failed"}

rebalanceFrame == <<tokenOps, clusterNodesPostMu, tokenReq, tokenResult, nodesRoles,
                    handoverVars, auxVars>>
InitRebalance ==
  /\ raft \in {r \in [Names -> RaftRoles \cup {"none"}] : r[LeaderName] = "voter"}
  /\ members \in {m \in [Names -> {NoRow} \cup [state : {"created"}, offline : BOOLEAN]] :
                    /\ \A n \in Names : m[n] = NoRow <=> raft[n] = "none"
                    /\ ~m[LeaderName].offline}
  /\ serverClustered = [d \in Daemons |-> TRUE]
  /\ InitNodes(Daemons)
  /\ systemdSocketActivated = [d \in Daemons |-> FALSE]
  /\ tokenOps = <<>>
  /\ clusterNodesPostMu = [d \in Daemons |-> NoHolder]
  /\ tokenReq = [i \in TokenReqIds |-> IdleTokenReq]
  /\ tokenResult = NoTokenResult
  /\ lastResponse = NoResponse
  /\ nodesRoles = [n \in Names |-> {}]
  /\ handoverCall = [d \in Daemons |-> NoCall]
  /\ leaderAddress = ""
  /\ InitAux

RebalanceRequest ==
  /\ internalClusterPostRebalance(LeaderName, Address(LeaderName))
  /\ UNCHANGED <<raft, lastResponse, rebalanceFrame>>
RebalanceShutdown ==
  /\ Shutdown(LeaderName)
  /\ UNCHANGED <<tokenVars, serverName, gateway, clusterTasks, systemdSocketActivated,
                 clusterPutDisableMu, h, putOps, lastPut, clusterMembershipMutex, raft,
                 lastResponse, nodesRoles, handoverVars, auxVars>>
RebalanceRound ==
  \E i \in HandlerIds, target \in Names, role \in RaftRoles \cup {""},
     outcome \in {"nothing", "error", "unreachable", "demote", "demote failed", "promote",
                  "demote reachable", "shutdown"} :
    /\ rebalanceMemberRoles(i, outcome, target, role, TRUE)
    /\ outcome # "shutdown" => (outcome = "nothing" <=> clusterRebalance = {})
    /\ outcome \notin {"nothing", "error", "shutdown"} => <<target, role>> \in clusterRebalance
    /\ raft' = IF outcome = "demote" THEN DemoteOfflineNode(target) ELSE raft
    /\ Logged(Response("rebalance", h[i].d,
                        IF RoundEnds(outcome)
                          THEN RebalanceResponse(h[i].kind, RoundFailed(outcome))
                          ELSE ""))
    /\ UNCHANGED rebalanceFrame
RebalanceAssign ==
  \E i \in HandlerIds, ok \in BOOLEAN :
    /\ internalClusterPostAssign(i, ok, TRUE)
    /\ raft' = IF ok THEN clusterAssign(h[i].rpc, h[i].role) ELSE raft
    /\ Logged(Response("rebalance", h[i].d, IF ok THEN "" ELSE SmartError))
    /\ UNCHANGED rebalanceFrame
NextRebalance ==
  \/ RebalanceRequest
  \/ RebalanceShutdown
  \/ RebalanceRound
  \/ RebalanceAssign

SpecRebalance == InitRebalance /\ [][NextRebalance]_vars

\* ========================================= the callers of the rebalance
\* The three requests that call rebalanceMemberRoles, on the leader: the
\* rebalance request, the removal of a Raft node, the forced removal of a
\* member.
InitTrigger ==
  /\ raft \in RaftInits
  /\ members = [n \in Names |-> IF raft[n] = "none" THEN NoRow
                                 ELSE [state |-> "created", offline |-> FALSE]]
  /\ serverClustered = [d \in Daemons |-> TRUE]
  /\ InitNodes(Daemons)
  /\ systemdSocketActivated = [d \in Daemons |-> FALSE]
  /\ tokenOps = <<>>
  /\ clusterNodesPostMu = [d \in Daemons |-> NoHolder]
  /\ tokenReq = [i \in TokenReqIds |-> IdleTokenReq]
  /\ tokenResult = NoTokenResult
  /\ lastResponse = NoResponse
  /\ nodesRoles = [n \in Names |-> {}]
  /\ handoverCall = [d \in Daemons |-> NoCall]
  /\ leaderAddress = ""
  /\ InitAux
NextTrigger ==
  \/ RebalanceRequest
  \/ /\ internalClusterRaftNodeDelete(LeaderName, "n3")
     /\ raft' = clusterLeave("n3")
     /\ UNCHANGED <<lastResponse, rebalanceFrame>>
  \/ \E name \in {"n2", "n3"} :
       /\ clusterNodeDelete(LeaderName, 0, name, TRUE)
       /\ UNCHANGED <<raft, lastResponse, rebalanceFrame>>
  \/ \E i \in HandlerIds, outcome \in {"ok", "leave"} :
       /\ clusterNodeDeleteLeave(i, outcome)
       /\ raft' = IF outcome = "ok" THEN clusterLeave(h[i].name) ELSE raft
       /\ Logged(Response("delete", h[i].d, IF outcome = "ok" THEN "" ELSE SmartError))
       /\ UNCHANGED rebalanceFrame
  \/ \E i \in HandlerIds, ok \in BOOLEAN :
       /\ clusterNodeDeletePurge(i, ok)
       /\ Logged(Response("delete", h[i].d, IF ok THEN "" ELSE SmartError))
       /\ UNCHANGED <<raft, rebalanceFrame>>
  \/ \E i \in HandlerIds, target \in Names, role \in RaftRoles \cup {""},
        outcome \in {"nothing", "error", "unreachable", "demote", "demote failed", "promote",
                     "demote reachable"} :
       /\ rebalanceMemberRoles(i, outcome, target, role, TRUE)
       /\ RoundsCapped(i, outcome)
       /\ outcome = "nothing" <=> clusterRebalance = {}
       /\ outcome \notin {"nothing", "error"} => <<target, role>> \in clusterRebalance
       /\ raft' = IF outcome = "demote" THEN DemoteOfflineNode(target) ELSE raft
       /\ Logged(Response(h[i].kind, h[i].d,
                           IF RoundEnds(outcome)
                             THEN RebalanceResponse(h[i].kind, RoundFailed(outcome))
                             ELSE ""))
       /\ UNCHANGED rebalanceFrame
  \/ \E i \in HandlerIds, ok \in BOOLEAN :
       /\ internalClusterPostAssign(i, ok, TRUE)
       /\ raft' = IF ok THEN clusterAssign(h[i].rpc, h[i].role) ELSE raft
       /\ Logged(Response(h[i].kind, h[i].d,
                           IF ok THEN "" ELSE RebalanceResponse(h[i].kind, TRUE)))
       /\ UNCHANGED rebalanceFrame

SpecTrigger == InitTrigger /\ [][NextTrigger]_vars
\* The handler's goroutine runs on, and every assign and demote call returns.
SpecRebalanceFair ==
  SpecRebalance /\ WF_vars(RebalanceRound) /\ WF_vars(RebalanceAssign)

\* ============================================= the leader is not known
\* The requests that look the leader up, received by either member while the
\* Raft leader n1 is known or not known (an election is going on, or the
\* member lost contact): s.Cluster.LeaderAddress() returns leaderAddress, ""
\* when no leader is known. The request names are not empty, the lookup
\* itself does not fail, and a member that forwards a delete request does not
\* reach the leader.
LeaderLost == leaderAddress # "" /\ leaderAddress' = ""
LeaderFound == leaderAddress = "" /\ leaderAddress' = Address(LeaderName)

\* The URL of a redirect to the leader: url.URL{Scheme: "https", Path: ...,
\* Host: leader}.String(), "" for a response that is no redirect.
RedirectURL(resp, leader) ==
  IF resp = SyncResponseRedirect THEN "https://" \o leader ELSE ""
Redirected(kind, d, resp, leader) ==
  [Response(kind, d, resp) EXCEPT !.url = RedirectURL(resp, leader)]

\* What clusterNodeDelete answers before it compares the addresses ("" when
\* it goes on): tx.GetNodeByAddress fails for the local address or for the
\* leader address when the members table has no row with that address.
GetNodeByAddress(address) ==
  {n \in Names : members[n] # NoRow /\ Address(n) = address}
clusterNodeDeleteLookup(d, leader) ==
  IF leader = "error" THEN InternalError
  ELSE IF GetNodeByAddress(localClusterAddress(d)) = {} THEN SmartError
  ELSE IF GetNodeByAddress(leader) = {} THEN SmartError
  ELSE ""

lookupFrame == <<raft, leaderAddress, leaderFrame>>
LookupEntries ==
  \/ \E d \in Daemons :
       /\ internalClusterPostAccept(d, "n3", leaderAddress)
       /\ Logged(Redirected("accept", d,
                            internalClusterPostAcceptNotLeader(d, "n3", leaderAddress),
                            leaderAddress))
       /\ UNCHANGED lookupFrame
  \/ \E d \in Daemons :
       /\ internalClusterPostRebalance(d, leaderAddress)
       /\ Logged(Redirected("rebalance", d,
                            internalClusterPostRebalanceNotLeader(d, leaderAddress),
                            leaderAddress))
       /\ UNCHANGED lookupFrame
  \/ \E d \in Daemons :
       /\ internalClusterPostHandover(d, "n2", leaderAddress)
       /\ Logged(Redirected("handover", d,
                            internalClusterPostHandoverNotLeader(d, "n2", leaderAddress),
                            leaderAddress))
       /\ UNCHANGED lookupFrame
  \/ \E d \in Daemons :
       /\ IF clusterNodeDeleteLookup(d, leaderAddress) # ""
            THEN /\ Serving(d)
                 /\ UNCHANGED <<members, h, clusterMembershipMutex, clusterPutDisableMu,
                                memberFrame>>
            ELSE clusterNodeDelete(d, 0, "n3", TRUE)
       /\ Logged(Response("delete", d, clusterNodeDeleteLookup(d, leaderAddress)))
       /\ UNCHANGED lookupFrame

InitLookup ==
  /\ InitLeader
  /\ raft # [n1 |-> "voter", n2 |-> "stand-by", n3 |-> "none"]
NextLookup ==
  \/ /\ LeaderLost \/ LeaderFound
     /\ UNCHANGED <<tokenVars, daemon, serverName, gateway, clusterTasks,
                    systemdSocketActivated, clusterPutDisableMu, h, putOps, lastPut,
                    clusterMembershipMutex, raft, lastResponse, nodesRoles, handoverCall,
                    auxVars>>
  \/ LookupEntries
  \/ \E i \in HandlerIds, req \in AcceptBodiesFew,
        outcome \in {"ok", "pools", "networks", "accept"} :
       /\ internalClusterPostAcceptRun(i, req, outcome)
       /\ Logged(internalClusterPostAcceptResponse(members, h[i].name, req, outcome))
       /\ UNCHANGED lookupFrame
  \/ \E i \in HandlerIds, outcome \in {"error", "none"} :
       /\ internalClusterPostHandoverRun(i, outcome, LeaderName)
       /\ outcome = "none" => clusterHandover(h[i].name) = {}
       /\ Logged(Response("handover", h[i].d, internalClusterPostHandoverResponse(outcome)))
       /\ UNCHANGED lookupFrame
  \/ \E i \in HandlerIds :
       /\ clusterNodeDeleteForward(i, FALSE)
       /\ Logged(Response("delete", h[i].d, SmartError))
       /\ UNCHANGED lookupFrame
  \/ \E i \in HandlerIds :
       /\ clusterNodeDeleteLeave(i, "leave")
       /\ Logged(Response("delete", h[i].d, SmartError))
       /\ UNCHANGED lookupFrame
  \/ \E i \in HandlerIds, outcome \in {"nothing", "error"} :
       /\ rebalanceMemberRoles(i, outcome, LeaderName, "", TRUE)
       /\ Logged(Response(h[i].kind, h[i].d,
                           RebalanceResponse(h[i].kind, RoundFailed(outcome))))
       /\ UNCHANGED lookupFrame

SpecLookup == InitLookup /\ [][NextLookup]_vars

\* ================================================= handing over the role
\* handoverMemberRole on daemon d, step by step. handoverCall[d] is the call:
\* its position, the leader address it looked up, the leadership transfers
\* it made. leaderAddress is the address of the Raft leader, "" when there
\* is none.
MemberAddresses == {Address(n) : n \in Names}

\* A node that is not clustered has nothing to do; a clustered one goes on to
\* look the leader up.
handoverMemberRole(d) ==
  /\ handoverCall[d].pc = "idle"
  /\ handoverCall' = [handoverCall EXCEPT ![d].pc =
       IF ~serverClustered[d] THEN "nil" ELSE "findLeader"]
  /\ UNCHANGED leaderAddress

\* Where the call goes once s.Cluster.LeaderAddress() answered leader
\* ("error" when it failed) on the member with address local: an error, the
\* transfer of leadership when the leader is the member itself, else the
\* connection to the leader.
handoverSendsAnyway(leader, local) ==
  IF leader \in {"error", ""} THEN "error" ELSE "connect"
handoverAfterLookup(leader, local) ==
  IF leader = "error" THEN "error"
  ELSE IF leader = "" THEN "error"
  ELSE IF leader = local THEN "transfer"
  ELSE "connect"

\* findLeader: the leader is looked up.
handoverFindLeader(d, ok) ==
  /\ handoverCall[d].pc = "findLeader"
  /\ LET leader == IF ok THEN leaderAddress ELSE "error"
     IN handoverCall' = [handoverCall EXCEPT
          ![d].pc = handoverAfterLookup(leader, localClusterAddress(d)),
          ![d].leader = IF ok THEN leaderAddress ELSE ""]
  /\ UNCHANGED leaderAddress

\* gateway.TransferLeadership: leadership goes to another member, or the
\* transfer fails and the call returns the error; then the leader is looked
\* up again.
handoverTransferLeadership(d, ok, to) ==
  /\ handoverCall[d].pc = "transfer"
  /\ IF ok
       THEN /\ handoverCall[d].transfers < MaxTransfers
            /\ to \in MemberAddresses \ {localClusterAddress(d)}
            /\ leaderAddress' = to
            /\ handoverCall' = [handoverCall EXCEPT ![d].pc = "findLeader",
                                                     ![d].transfers = @ + 1]
       ELSE /\ to = ""
            /\ handoverCall' = [handoverCall EXCEPT ![d].pc = "error"]
            /\ UNCHANGED leaderAddress

\* cluster.Connect to the leader that was looked up and the POST of
\* /internal/cluster/handover, or the error of either.
handoverSend(d, ok) ==
  /\ handoverCall[d].pc = "connect"
  /\ handoverCall' = [handoverCall EXCEPT ![d].pc = IF ok THEN "sent" ELSE "error"]
  /\ UNCHANGED leaderAddress

\* The call returned; the member may hand over again.
handoverReturned(d) ==
  /\ handoverCall[d].pc \in {"nil", "sent", "error"}
  /\ handoverCall' = [handoverCall EXCEPT ![d] = NoCall]
  /\ UNCHANGED leaderAddress

\* Raft elects a leader, or loses it.
RaftElection(to) ==
  /\ to \in MemberAddresses \cup {""}
  /\ to # leaderAddress
  /\ leaderAddress' = to
  /\ UNCHANGED handoverCall

handoverFrame ==
  <<tokenVars, serverName, gateway, clusterTasks, daemon, systemdSocketActivated,
    clusterPutDisableMu, h, putOps, lastPut, clusterMembershipMutex, roleVars,
    auxVars>>

\* Member n1 and the stand-alone node n2.
InitHandover ==
  /\ members = [n \in Names |-> IF n = "n2" THEN NoRow
                                 ELSE [state |-> "created", offline |-> FALSE]]
  /\ serverClustered = [d \in Daemons |-> d = "n1"]
  /\ InitNodes({"n1"})
  /\ systemdSocketActivated = [d \in Daemons |-> FALSE]
  /\ tokenOps = <<>>
  /\ clusterNodesPostMu = [d \in Daemons |-> NoHolder]
  /\ tokenReq = [i \in TokenReqIds |-> IdleTokenReq]
  /\ tokenResult = NoTokenResult
  /\ raft = [n \in Names |-> IF n = "n2" THEN "none" ELSE "voter"]
  /\ lastResponse = NoResponse
  /\ nodesRoles = [n \in Names |-> {}]
  /\ handoverCall = [d \in Daemons |-> NoCall]
  /\ leaderAddress \in {Address("n1"), Address("n3"), ""}
  /\ InitAux

NextHandover ==
  /\ \/ \E d \in Daemons : handoverMemberRole(d)
     \/ \E d \in Daemons, ok \in BOOLEAN : handoverFindLeader(d, ok)
     \/ \E d \in Daemons, ok \in BOOLEAN, to \in MemberAddresses \cup {""} :
          handoverTransferLeadership(d, ok, to)
     \/ \E d \in Daemons, ok \in BOOLEAN : handoverSend(d, ok)
     \/ \E d \in Daemons : handoverReturned(d)
     \/ \E to \in MemberAddresses \cup {""} : RaftElection(to)
  /\ UNCHANGED handoverFrame

SpecHandover == InitHandover /\ [][NextHandover]_vars

\* ================================================== updating a member
\* GET, PUT and PATCH /1.0/cluster/members/{name}. The roles a member shows
\* are those stored for it and those that shadow its Raft role; the stored
\* ones are replaced by the roles of an accepted request, but for the roles
\* that shadow the Raft role. An update loads the member in one transaction,
\* checks the request against what it loaded, and writes in a second one.
ClusterRoleDatabase == "database"
ClusterRoleDatabaseStandBy == "database-standby"
UpdateRoleSets == {{}, {"event-hub"}, {ClusterRoleDatabase}, {ClusterRoleDatabase, "ovn-chassis"}}
PreconditionFailed == "PreconditionFailed 412"

\* member.ToAPI: the roles of member n.
ToAPIRoles(n) ==
  nodesRoles[n]
    \cup (IF raft[n] = "voter" THEN {ClusterRoleDatabase} ELSE {})
    \cup (IF raft[n] = "stand-by" THEN {ClusterRoleDatabaseStandBy} ELSE {})
\* tx.UpdateNodeRoles: the roles stored for a member that is given roles.
UpdateNodeRoles(roles) == roles \ {ClusterRoleDatabase, ClusterRoleDatabaseStandBy}

\* memberInfo.ClusterMemberPut of member n, the value the ETag is the hash of.
ClusterMemberPut(n) ==
  [config |-> nodesInfo[n].config, description |-> nodesInfo[n].description,
   roles |-> ToAPIRoles(n), failure_domain |-> nodesInfo[n].failure_domain,
   groups |-> nodesInfo[n].groups]

\* localUtil.EtagCheck: a request without If-Match passes, one with If-Match
\* passes when the header is the hash of the value.
EtagCheck(ifMatch, data) == ifMatch = <<>> \/ ifMatch[1] = data

\* json.Decode into an api.ClusterMemberPut: a field the body lacks keeps its
\* zero value.
Decode(body) ==
  [f \in DOMAIN ZeroPut |-> IF f \in DOMAIN body THEN body[f] ELSE ZeroPut[f]]

\* clusterValidateConfig: "" when every key is a user key or
\* scheduler.instance with one of its values.
clusterValidateConfigAnyKey(config) ==
  IF \E k \in DOMAIN config :
       k = "scheduler.instance" /\ config[k] \notin {"", "all", "group", "manual"}
    THEN "Invalid cluster configuration value"
  ELSE ""
clusterValidateConfig(config) ==
  IF \E k \in DOMAIN config : ~HasPrefix(k, "user.") /\ k # "scheduler.instance"
    THEN "Invalid cluster configuration key"
  ELSE IF \E k \in DOMAIN config :
            k = "scheduler.instance" /\ config[k] \notin {"", "all", "group", "manual"}
    THEN "Invalid cluster configuration value"
  ELSE ""

\* The validation of the request against the roles the member shows: "" when
\* the request is fine.
updateClusterNodeAllowsDrop(memberRoles, req) ==
  IF ClusterRoleDatabase \notin memberRoles /\ ClusterRoleDatabase \in req.roles
    THEN BadRequest
  ELSE IF req.groups = {} THEN BadRequest
  ELSE ""
updateClusterNodeValidate(memberRoles, req) ==
  IF ClusterRoleDatabase \in memberRoles /\ ClusterRoleDatabase \notin req.roles
    THEN BadRequest
  ELSE IF ClusterRoleDatabase \notin memberRoles /\ ClusterRoleDatabase \in req.roles
    THEN BadRequest
  ELSE IF req.groups = {} THEN BadRequest
  ELSE ""

\* The response of updateClusterNode before it updates the database, "" when
\* it goes on to update it: the member is loaded, the ETag checked against
\* it, the body decoded and checked.
updateClusterNodeResponse(name, body, ifMatch) ==
  IF members[name] = NoRow THEN SmartError
  ELSE IF ~EtagCheck(ifMatch, ClusterMemberPut(name)) THEN PreconditionFailed
  ELSE updateClusterNodeValidate(ToAPIRoles(name), Decode(body))

\* The response of the transaction that updates the database for call c;
\* outcome "db" is a statement of the transaction failing.
updateClusterNodeUpdateResponse(c, outcome) ==
  IF members[c.name] = NoRow THEN SmartError
  ELSE IF clusterValidateConfig(c.req.config) # "" THEN SmartError
  ELSE IF outcome = "db" THEN SmartError
  ELSE EmptySyncResponse

\* The config a PATCH stores: the keys of the request, and the stored keys
\* the request lacks.
PatchConfig(reqConfig, stored) ==
  [k \in DOMAIN reqConfig \cup DOMAIN stored |->
     IF k \in DOMAIN reqConfig THEN reqConfig[k] ELSE stored[k]]

\* What the transaction of call c stores for its member: the config (merged
\* for a PATCH), the description when it differs from the one loaded before
\* the ETag check, the failure domain and the groups.
updateClusterNodeStored(c) ==
  [config |-> IF c.isPatch THEN PatchConfig(c.req.config, nodesInfo[c.name].config)
              ELSE c.req.config,
   description |-> IF c.req.description # c.memberInfo.description
                     THEN c.req.description
                   ELSE nodesInfo[c.name].description,
   failure_domain |-> c.req.failure_domain,
   groups |-> c.req.groups]

UpdateResponse(c, resp) ==
  [NoResponse EXCEPT !.kind = IF c.isPatch THEN "patch" ELSE "put",
                     !.d = c.d, !.name = c.name, !.resp = resp]

\* clusterNodeGet on daemon d: the client keeps the ETag of the member.
clusterNodeGet(d, name) ==
  /\ Serving(d)
  /\ members[name] # NoRow
  /\ lastEtag' = <<ClusterMemberPut(name)>>
  /\ UNCHANGED <<nodesInfo, updateCall, nodesRoles, lastResponse, raft>>

\* updateClusterNode on daemon d, up to the transaction that updates the
\* database: call u answers at once, or goes on with what it loaded.
updateClusterNode(u, d, name, body, ifMatch, isPatch) ==
  /\ Serving(d)
  /\ updateCall[u].pc = "idle"
  /\ LET resp == updateClusterNodeResponse(name, body, ifMatch)
         c == [pc |-> "update", d |-> d, name |-> name, isPatch |-> isPatch,
               req |-> Decode(body), memberInfo |-> ClusterMemberPut(name),
               ifMatch |-> ifMatch, body |-> body]
     IN IF resp # ""
          THEN /\ lastResponse' = UpdateResponse(c, resp)
               /\ UNCHANGED updateCall
          ELSE /\ updateCall' = [updateCall EXCEPT ![u] = c]
               /\ UNCHANGED lastResponse
  /\ UNCHANGED <<nodesInfo, nodesRoles, lastEtag, raft>>

\* The transaction of call u that updates the database, and the response.
updateClusterNodeUpdate(u, outcome) ==
  /\ updateCall[u].pc = "update"
  /\ outcome \in {"ok", "db"}
  /\ LET c == updateCall[u]
         resp == updateClusterNodeUpdateResponse(c, outcome)
     IN /\ lastResponse' = UpdateResponse(c, resp)
        /\ IF resp = EmptySyncResponse
             THEN /\ nodesInfo' = [nodesInfo EXCEPT ![c.name] = updateClusterNodeStored(c)]
                  /\ nodesRoles' = [nodesRoles EXCEPT ![c.name] = UpdateNodeRoles(c.req.roles)]
             ELSE UNCHANGED <<nodesInfo, nodesRoles>>
  /\ updateCall' = [updateCall EXCEPT ![u] = NoUpdate]
  /\ UNCHANGED <<lastEtag, raft>>

\* The rebalancer gives member n another Raft role.
RoleAssigned(n, role) ==
  /\ n # LeaderName
  /\ raft[n] \notin {"none", role}
  /\ raft' = clusterAssign(n, role)
  /\ UNCHANGED <<nodesRoles, lastResponse, infoVars>>

updateFrame ==
  <<tokenVars, serverName, gateway, clusterTasks, daemon, systemdSocketActivated,
    clusterPutDisableMu, h, putOps, lastPut, clusterMembershipMutex, handoverVars,
    sideVars>>

\* What is stored for a member of the default group nothing was changed of.
DefaultInfo == [NoInfo EXCEPT !.failure_domain = "default", !.groups = {"default"}]

\* The requests that change roles and groups.
UpdateBodies ==
  { [roles |-> r, groups |-> g] : r \in UpdateRoleSets, g \in {{}, {"default"}} }

InitUpdate ==
  /\ raft \in RaftInits
  /\ members = [n \in Names |-> IF raft[n] = "none" THEN NoRow
                                 ELSE [state |-> "created", offline |-> FALSE]]
  /\ serverClustered = [d \in Daemons |-> TRUE]
  /\ InitNodes(Daemons)
  /\ systemdSocketActivated = [d \in Daemons |-> FALSE]
  /\ tokenOps = <<>>
  /\ clusterNodesPostMu = [d \in Daemons |-> NoHolder]
  /\ tokenReq = [i \in TokenReqIds |-> IdleTokenReq]
  /\ tokenResult = NoTokenResult
  /\ lastResponse = NoResponse
  /\ nodesRoles = [n \in Names |-> {}]
  /\ handoverCall = [d \in Daemons |-> NoCall]
  /\ leaderAddress = ""
  /\ nodesInfo = [n \in Names |-> IF raft[n] = "none" THEN NoInfo ELSE DefaultInfo]
  /\ updateCall = [u \in UpdateIds |-> NoUpdate]
  /\ lastEtag = <<>>
  /\ InitSide

NextUpdate ==
  /\ \/ \E d \in Daemons, body \in UpdateBodies, ifMatch \in {<<>>, <<ZeroPut>>},
           isPatch \in BOOLEAN :
          updateClusterNode(1, d, "n2", body, ifMatch, isPatch)
     \/ \E outcome \in {"ok", "db"} : updateClusterNodeUpdate(1, outcome)
     \/ \E n \in Names, role \in RaftRoles : RoleAssigned(n, role)
  /\ UNCHANGED updateFrame

SpecUpdate == InitUpdate /\ [][NextUpdate]_vars

\* ============================================ the groups of the members
\* A daemon bootstraps a cluster or joins that of member n2, and members are
\* updated. cluster.Bootstrap creates the table of the new cluster with the
\* member in group default; cluster.Join makes the row of the joiner created,
\* and the handler adds the member to group default in a transaction of its
\* own. From a bootstrap on, members is the table of the new cluster.
CreatedRow == [state |-> "created", offline |-> FALSE]

\* cluster.Bootstrap of the bootstrap operation o.
clusterBootstrap(o, outcome) ==
  IF outcome = "bootstrap" THEN UNCHANGED <<members, nodesInfo>>
  ELSE /\ members' = [n \in Names |-> IF n = putOps[o].name THEN CreatedRow ELSE NoRow]
       /\ nodesInfo' = [n \in Names |-> IF n = putOps[o].name THEN DefaultInfo ELSE NoInfo]

\* The accept request, cluster.Join and tx.AddNodeToClusterGroup of the join
\* operation o; joined says whether the accept request went through when
\* the outcome is "accept".
clusterJoin(o, outcome, accepted) ==
  LET name == putOps[o].name
  IN CASE outcome = "setup" -> UNCHANGED <<members, nodesInfo>>
       [] outcome = "accept" ->
            /\ members' = IF accepted /\ members[name] = NoRow
                            THEN [members EXCEPT ![name] = PendingRow]
                          ELSE members
            /\ UNCHANGED nodesInfo
       [] outcome = "group" ->
            /\ members' = [members EXCEPT ![name] = CreatedRow]
            /\ nodesInfo' = [nodesInfo EXCEPT ![name] = [NoInfo EXCEPT !.failure_domain = "default"]]
       [] outcome \in {"config", "ok"} ->
            /\ members' = [members EXCEPT ![name] = CreatedRow]
            /\ nodesInfo' = [nodesInfo EXCEPT ![name] = DefaultInfo]

GroupBodies == { [groups |-> g] : g \in {{}, {"g1"}} }

\* The requests that bootstrap a cluster or join one.
GroupPutBodies ==
  { b \in PutBodies : clusterPutBranch(b) \in {"clusterPutBootstrap", "clusterPutJoin"} }

groupsFrame ==
  <<tokenOps, clusterNodesPostMu, tokenReq, tokenResult, systemdSocketActivated,
    clusterMembershipMutex, handoverVars, sideVars, raft>>
groupsPutVars ==
  <<serverName, serverClustered, gateway, clusterTasks, daemon, clusterPutDisableMu,
    h, putOps, lastPut>>

\* Member n2 is a cluster of its own, daemon n1 is stand-alone; the Raft
\* roles are not followed.
InitGroups ==
  /\ members = [n \in Names |-> IF n = "n2" THEN CreatedRow ELSE NoRow]
  /\ nodesInfo = [n \in Names |-> IF n = "n2" THEN DefaultInfo ELSE NoInfo]
  /\ serverClustered = [d \in Daemons |-> d = "n2"]
  /\ InitNodes({"n2"})
  /\ systemdSocketActivated = [d \in Daemons |-> FALSE]
  /\ tokenOps = <<>>
  /\ clusterNodesPostMu = [d \in Daemons |-> NoHolder]
  /\ tokenReq = [i \in TokenReqIds |-> IdleTokenReq]
  /\ tokenResult = NoTokenResult
  /\ raft = NoRaft
  /\ lastResponse = NoResponse
  /\ nodesRoles = [n \in Names |-> {}]
  /\ handoverCall = [d \in Daemons |-> NoCall]
  /\ leaderAddress = ""
  /\ updateCall = [u \in UpdateIds |-> NoUpdate]
  /\ lastEtag = <<>>
  /\ InitSide

NextGroups ==
  /\ \/ /\ \E req \in GroupPutBodies, outcome \in {"ok", "config", "address", "create"} :
             clusterPut("n1", 0, req, outcome)
        /\ UNCHANGED <<members, nodesInfo, roleVars, updateCall, lastEtag>>
     \/ /\ \E o \in PutOpIds, outcome \in {"ok", "bootstrap", "network"} :
             clusterPutBootstrapRun(o, outcome) /\ clusterBootstrap(o, outcome)
        /\ UNCHANGED <<lastResponse, nodesRoles, updateCall, lastEtag>>
     \/ /\ \E o \in PutOpIds, outcome \in {"ok", "setup", "accept", "group", "config"},
             accepted \in BOOLEAN :
             clusterPutJoinRun(o, outcome) /\ clusterJoin(o, outcome, accepted)
        /\ UNCHANGED <<lastResponse, nodesRoles, updateCall, lastEtag>>
     \/ /\ \E body \in GroupBodies, isPatch \in BOOLEAN :
             updateClusterNode(1, "n2", "n1", body, <<>>, isPatch)
        /\ UNCHANGED <<members, groupsPutVars>>
     \/ /\ \E outcome \in {"ok", "db"} : updateClusterNodeUpdate(1, outcome)
        /\ UNCHANGED <<members, groupsPutVars>>
  /\ UNCHANGED groupsFrame

SpecGroups == InitGroups /\ [][NextGroups]_vars

\* ======================================= the stored data of one member
\* PUT and PATCH of member n2, a spare, on daemon n1, one request at a time
\* and without If-Match.
InfoConfigs ==
  { <<>>, "user.1" :> "a", "user.1" :> "b", "scheduler.instance" :> "group",
    "scheduler.instance" :> "bad", "scheduler.instance" :> "",
    "limits.cpu" :> "1", ("user.1" :> "a") @@ ("scheduler.instance" :> "all"),
    ("user.1" :> "a") @@ ("limits.cpu" :> "1") }
FullPut ==
  [config |-> "user.1" :> "a", description |-> "x", roles |-> {"event-hub"},
   failure_domain |-> "fd1", groups |-> {"default", "g1"}]
InfoBodies ==
  { [config |-> c, groups |-> {"default"}] : c \in InfoConfigs }
    \cup { [description |-> "x", groups |-> {"default"}], [groups |-> {"g1"}],
           [description |-> "x"], FullPut }

infoFrame ==
  <<tokenVars, serverName, gateway, clusterTasks, daemon, systemdSocketActivated,
    clusterPutDisableMu, h, putOps, lastPut, clusterMembershipMutex, handoverVars,
    sideVars, raft, lastEtag>>

InitInfo ==
  /\ raft = [n1 |-> "voter", n2 |-> "spare", n3 |-> "none"]
  /\ members = [n \in Names |-> IF raft[n] = "none" THEN NoRow ELSE CreatedRow]
  /\ serverClustered = [d \in Daemons |-> TRUE]
  /\ InitNodes(Daemons)
  /\ systemdSocketActivated = [d \in Daemons |-> FALSE]
  /\ tokenOps = <<>>
  /\ clusterNodesPostMu = [d \in Daemons |-> NoHolder]
  /\ tokenReq = [i \in TokenReqIds |-> IdleTokenReq]
  /\ tokenResult = NoTokenResult
  /\ lastResponse = NoResponse
  /\ nodesRoles = [n \in Names |-> {}]
  /\ handoverCall = [d \in Daemons |-> NoCall]
  /\ leaderAddress = ""
  /\ nodesInfo = [n \in Names |-> IF raft[n] = "none" THEN NoInfo ELSE DefaultInfo]
  /\ updateCall = [u \in UpdateIds |-> NoUpdate]
  /\ lastEtag = <<>>
  /\ InitSide

NextInfo ==
  /\ \/ \E body \in InfoBodies, isPatch \in BOOLEAN :
          updateClusterNode(1, "n1", "n2", body, <<>>, isPatch)
     \/ \E outcome \in {"ok", "db"} : updateClusterNodeUpdate(1, outcome)
  /\ UNCHANGED infoFrame

SpecInfo == InitInfo /\ [][NextInfo]_vars

\* ==================================== updates of one member with ETags
\* A client reads member n2 and sends PUTs with the ETag it read, or without
\* one; two requests can be between their two transactions at a time.
EtagBodies == { [description |-> x, groups |-> {"default"}] : x \in {"a", "b"} }

etagFrame ==
  <<tokenVars, serverName, gateway, clusterTasks, daemon, systemdSocketActivated,
    clusterPutDisableMu, h, putOps, lastPut, clusterMembershipMutex, handoverVars,
    sideVars, raft>>

NextEtag ==
  /\ \/ clusterNodeGet("n1", "n2")
     \/ \E u \in UpdateIds, body \in EtagBodies, ifMatch \in {<<>>, lastEtag} :
          updateClusterNode(u, "n1", "n2", body, ifMatch, FALSE)
     \/ \E u \in UpdateIds, outcome \in {"ok", "db"} : updateClusterNodeUpdate(u, outcome)
  /\ UNCHANGED etagFrame

SpecEtag == InitInfo /\ [][NextEtag]_vars

\* ==================================================== renaming a member
\* POST /1.0/cluster/members/{name}. The request is forwarded to the member
\* it names, here daemon n1, whose handler renames the row in a transaction
\* and then sets its server name. Member n2 keeps its name.
RenamedDaemon == "n1"

\* tx.RenameNode: the row of old under the name new, with what is stored for
\* it, when old exists and new does not.
RenameNode(f, old, new, none) ==
  [n \in Names |-> IF n = new THEN f[old] ELSE IF n = old THEN none ELSE f[n]]

\* The response of clusterNodePost up to its transaction, "" when the
\* transaction renamed the row; outcome names what fails for a reason the
\* request does not show.
clusterNodePostResponse(memberName, newName, outcome) ==
  IF members[memberName] = NoRow THEN SmartError
  ELSE IF outcome = "decode" THEN BadRequest
  ELSE IF members[newName] # NoRow THEN SmartError
  ELSE IF outcome = "db" THEN SmartError
  ELSE ""

\* clusterNodePost for member memberName, up to the end of the transaction.
clusterNodePost(r, memberName, newName, outcome) ==
  /\ Serving(RenamedDaemon)
  /\ renameCall[r].pc = "idle"
  /\ outcome \in {"ok", "decode", "db"}
  /\ LET resp == clusterNodePostResponse(memberName, newName, outcome)
     IN IF resp # ""
          THEN /\ lastResponse' = [NoResponse EXCEPT !.kind = "rename", !.d = RenamedDaemon,
                                                     !.name = memberName, !.resp = resp]
               /\ UNCHANGED <<members, nodesInfo, nodesRoles, raft, renameCall>>
          ELSE /\ members' = RenameNode(members, memberName, newName, NoRow)
               /\ nodesInfo' = RenameNode(nodesInfo, memberName, newName, NoInfo)
               /\ nodesRoles' = RenameNode(nodesRoles, memberName, newName, {})
               /\ raft' = RenameNode(raft, memberName, newName, "none")
               /\ renameCall' = [renameCall EXCEPT ![r] =
                    [pc |-> "renamed", old |-> memberName, new |-> newName]]
               /\ UNCHANGED lastResponse
  /\ UNCHANGED serverName

\* d.serverName = req.ServerName under d.globalConfigMu, and the response.
clusterNodePostSetName(r) ==
  /\ renameCall[r].pc = "renamed"
  /\ serverName' = [serverName EXCEPT ![RenamedDaemon] = renameCall[r].new]
  /\ lastResponse' = [NoResponse EXCEPT !.kind = "rename", !.d = RenamedDaemon,
                                        !.name = renameCall[r].old,
                                        !.resp = EmptySyncResponse]
  /\ renameCall' = [renameCall EXCEPT ![r] = NoRename]
  /\ UNCHANGED <<members, nodesInfo, nodesRoles, raft>>

renameFrame ==
  <<serverClustered, tokenOps, clusterNodesPostMu, tokenReq, tokenResult, gateway,
    clusterTasks, daemon, systemdSocketActivated, clusterPutDisableMu, h, putOps,
    lastPut, clusterMembershipMutex, handoverVars, updateCall, lastEtag, evacuation,
    activate>>

\* Members n1 and n2; one or two renames at a time.
InitRename == InitInfo

NextRename ==
  /\ \/ \E r \in RenameIds, memberName \in {"n1", "n3"}, newName \in Names,
           outcome \in {"ok", "decode", "db"} :
          clusterNodePost(r, memberName, newName, outcome)
     \/ \E r \in RenameIds : clusterNodePostSetName(r)
  /\ UNCHANGED renameFrame

SpecRename == InitRename /\ [][NextRename]_vars

\* ================================================ the activation probe
\* incusd activateifneeded: what it finds on the machine (the user, the two
\* databases, the configured address, the instances of this server and the
\* custom volumes) and whether it connects to the socket of the daemon.
PowerStateRunning == "RUNNING"
\* The instances: boot.autostart, volatile.last_state.power, whether the
\* instance runs, and snapshots.schedule. An instance that runs was started,
\* which recorded its power state.
ProbeInstances ==
  { i \in [autostart : {"", "true", "false"}, last_state : {"", PowerStateRunning},
           running : BOOLEAN, schedule : {"", "@daily"}] :
      i.running => i.last_state = PowerStateRunning }
ProbeVolumes == {"", "@hourly"}

RECURSIVE SeqsUpTo(_, _)
SeqsUpTo(S, n) ==
  IF n = 0 THEN {<<>>}
  ELSE SeqsUpTo(S, n - 1)
         \cup { Append(q, x) : q \in { p \in SeqsUpTo(S, n - 1) : Len(p) = n - 1 }, x \in S }

\* What the probe can find: without a local database there is no address,
\* without a global one no instance and no volume.
ProbeInputs ==
  { p \in [root : BOOLEAN, localDB : BOOLEAN, address : {"", ":8443"},
           globalDB : BOOLEAN, instances : SeqsUpTo(ProbeInstances, MaxInstances),
           volumes : SeqsUpTo(ProbeVolumes, MaxVolumes)] :
      /\ ~p.localDB => p.address = "" /\ ~p.globalDB
      /\ ~p.globalDB => p.instances = <<>> /\ p.volumes = <<>> }

\* util.IsTrue
IsTrue(v) == v \in {"true", "1", "yes", "on"}

\* instanceShouldAutoStart
instanceShouldAutoStartAnyLastState(inst) ==
  IsTrue(inst.autostart) \/ inst.last_state = PowerStateRunning
instanceShouldAutoStart(inst) ==
  IsTrue(inst.autostart) \/ (inst.autostart = "" /\ inst.last_state = PowerStateRunning)

\* The loop over the instances: TRUE when one of them makes the probe connect.
RECURSIVE instancesActivate(_, _)
instancesActivate(instances, i) ==
  IF i > Len(instances) THEN FALSE
  ELSE IF instanceShouldAutoStart(instances[i]) THEN TRUE
  ELSE IF instances[i].running THEN TRUE
  ELSE IF instances[i].schedule # "" THEN TRUE
  ELSE instancesActivate(instances, i + 1)

\* The loop over the custom volumes.
RECURSIVE volumesActivate(_, _)
volumesActivate(volumes, i) ==
  IF i > Len(volumes) THEN FALSE
  ELSE IF volumes[i] # "" THEN TRUE
  ELSE volumesActivate(volumes, i + 1)

ProbeOutcomes ==
  {"ok", "open", "config", "global open", "statements", "instances", "volumes", "connect"}

\* cmdActivateifneeded.run on input p: whether it called ConnectIncusUnix and
\* whether it returned an error; outcome names the call that fails.
cmdActivateifneededRun(p, outcome) ==
  LET connect == [connect |-> TRUE, err |-> outcome = "connect"]
      nothing == [connect |-> FALSE, err |-> FALSE]
      failed == [connect |-> FALSE, err |-> TRUE]
  IN IF ~p.root THEN failed
     ELSE IF ~p.localDB THEN nothing
     ELSE IF outcome \in {"open", "config"} THEN failed
     ELSE IF p.address # "" THEN connect
     ELSE IF ~p.globalDB THEN nothing
     ELSE IF outcome \in {"global open", "statements", "instances"} THEN failed
     ELSE IF instancesActivate(p.instances, 1) THEN connect
     ELSE IF outcome = "volumes" THEN failed
     ELSE IF volumesActivate(p.volumes, 1) THEN connect
     ELSE nothing

\* The probe runs.
activateifneeded(outcome) ==
  /\ activate.pc = "start"
  /\ activate' = [pc |-> "done", input |-> activate.input, outcome |-> outcome,
                  result |-> cmdActivateifneededRun(activate.input, outcome)]

activateFrame ==
  <<tokenVars, serverName, gateway, clusterTasks, daemon, systemdSocketActivated,
    clusterPutDisableMu, h, putOps, lastPut, clusterMembershipMutex, roleVars,
    handoverVars, infoVars, evacuation, renameCall>>

InitActivate ==
  /\ members = [n \in Names |-> NoRow]
  /\ serverClustered = [d \in Daemons |-> FALSE]
  /\ InitNodes({})
  /\ systemdSocketActivated = [d \in Daemons |-> TRUE]
  /\ tokenOps = <<>>
  /\ clusterNodesPostMu = [d \in Daemons |-> NoHolder]
  /\ tokenReq = [i \in TokenReqIds |-> IdleTokenReq]
  /\ tokenResult = NoTokenResult
  /\ raft = NoRaft
  /\ lastResponse = NoResponse
  /\ nodesRoles = [n \in Names |-> {}]
  /\ handoverCall = [d \in Daemons |-> NoCall]
  /\ leaderAddress = ""
  /\ nodesInfo = [n \in Names |-> NoInfo]
  /\ updateCall = [u \in UpdateIds |-> NoUpdate]
  /\ lastEtag = <<>>
  /\ evacuation = NoEvacuation
  /\ renameCall = [r \in RenameIds |-> NoRename]
  /\ \E p \in ProbeInputs : activate = [pc |-> "start", input |-> p]

NextActivate ==
  /\ \E outcome \in ProbeOutcomes : activateifneeded(outcome)
  /\ UNCHANGED activateFrame

SpecActivate == InitActivate /\ [][NextActivate]_vars

\* strconv.Atoi of a string given as its characters: whether it fails (the
\* string is no decimal number), and the number it returns when it does not.
DigitOf(c) ==
  CASE c = "0" -> 0 [] c = "1" -> 1 [] c = "2" -> 2 [] c = "3" -> 3 [] c = "4" -> 4
    [] c = "5" -> 5 [] c = "6" -> 6 [] c = "7" -> 7 [] c = "8" -> 8 [] c = "9" -> 9
    [] OTHER -> 0 - 1
AllDigits(str) == str # <<>> /\ \A k \in 1..Len(str) : DigitOf(str[k]) >= 0
RECURSIVE AtoiDigits(_, _)
AtoiDigits(str, acc) ==
  IF str = <<>> THEN acc
  ELSE AtoiDigits(Tail(str), acc * 10 + DigitOf(Head(str)))
AtoiFails(str) ==
  IF str # <<>> /\ Head(str) \in {"-", "+"} THEN ~AllDigits(Tail(str)) ELSE ~AllDigits(str)
Atoi(str) ==
  IF Head(str) = "-" THEN 0 - AtoiDigits(Tail(str), 0)
  ELSE IF Head(str) = "+" THEN AtoiDigits(Tail(str), 0)
  ELSE AtoiDigits(str, 0)

\* ============================================= starting the instances
\* instancesStart for the instances of the server: the list is sorted by
\* boot.autostart.priority, highest first, then by name, and the instances
\* that should start and do not run are started one after the other. An
\* instance has a name, boot.autostart, boot.autostart.priority (given as its
\* characters), volatile.last_state.power, whether it runs and whether an
\* auto-start failure warning exists for it. The call keeps per instance the
\* number of inst.Start calls, the number of those that failed with an error
\* other than 503, and what it did with the warning. The sleeps between
\* attempts and after a start take time only.
StartNames == {"a", "b"}
StartInstances ==
  { i \in [name : StartNames, autostart : {"", "true", "false"}, priority : {<<>>, <<"5">>},
           last_state : {"", PowerStateRunning}, running : BOOLEAN, warning : BOOLEAN] :
      i.running => i.last_state = PowerStateRunning }
StartLists ==
  {<<>>} \cup {<<i>> : i \in StartInstances}
         \cup {<<i, j>> : i \in {x \in StartInstances : x.name = "a"},
                          j \in {x \in StartInstances : x.name = "b"}}

\* instanceAutostartList.Less, names compared in the order a, b.
AtoiOrZero(str) == IF AtoiFails(str) THEN 0 ELSE Atoi(str)
instanceAutostartLess(x, y) ==
  IF x.priority # y.priority
    THEN AtoiOrZero(x.priority) > AtoiOrZero(y.priority)
    ELSE x.name = "a" /\ y.name = "b"
\* sort.Sort(instanceAutostartList(instances)) of a list of at most two.
instanceAutostartSort(instances) ==
  IF Len(instances) = 2 /\ instanceAutostartLess(instances[2], instances[1])
    THEN <<instances[2], instances[1]>>
    ELSE instances

maxAttempts == 3
\* if attempt >= maxAttempts
instancesStartGivesUpAtOnce(attempt) == attempt >= 1
instancesStartGivesUp(attempt) == attempt >= maxAttempts

NoStart ==
  [pc |-> "idle", input |-> <<>>, instances |-> <<>>, k |-> 0, attempt |-> 0,
   starts |-> <<>>, counted |-> <<>>, warned |-> <<>>]

\* instancesStart is called: the lock, the sort.
instancesStart(instances) ==
  /\ activate.pc = "idle"
  /\ activate' =
       [NoStart EXCEPT
          !.pc = "next",
          !.input = instanceAutostartSort(instances),
          !.instances = instanceAutostartSort(instances),
          !.starts = [k \in 1..Len(instances) |-> 0],
          !.counted = [k \in 1..Len(instances) |-> 0],
          !.warned = [k \in 1..Len(instances) |-> ""]]

\* The head of the loop over the instances: an instance that should not
\* start, or that runs, is left alone; after the last one the call returns.
instancesStartNext ==
  /\ activate.pc = "next"
  /\ IF activate.k = Len(activate.instances)
       THEN activate' = [activate EXCEPT !.pc = "done"]
       ELSE LET inst == activate.instances[activate.k + 1]
            IN activate' =
                 [activate EXCEPT
                    !.k = @ + 1,
                    !.attempt = 0,
                    !.pc = IF ~instanceShouldAutoStart(inst) \/ inst.running
                             THEN "next" ELSE "try"]

\* One turn of the inner loop: inst.Start(false) returns res; dbOk tells
\* whether the warning is stored (UpsertWarningLocalNode) or resolved
\* (ResolveWarningsByLocalNodeAndProjectAndTypeAndEntity).
instancesStartTry(res, dbOk) ==
  /\ activate.pc = "try"
  /\ LET k == activate.k
         attempt == activate.attempt + 1
         call == [activate EXCEPT !.attempt = attempt, !.starts[k] = @ + 1]
     IN activate' =
          CASE res = "unavailable" -> [call EXCEPT !.pc = "next"]
            [] res = "error" /\ instancesStartGivesUp(attempt) ->
                 [call EXCEPT !.pc = "next",
                              !.counted[k] = @ + 1,
                              !.warned[k] = IF dbOk THEN "recorded" ELSE "record failed",
                              !.instances[k].warning = dbOk \/ @]
            [] res = "error" /\ ~instancesStartGivesUp(attempt) ->
                 [call EXCEPT !.counted[k] = @ + 1]
            [] res = "ok" ->
                 [call EXCEPT !.pc = "next",
                              !.warned[k] = IF dbOk THEN "resolved" ELSE "resolve failed",
                              !.instances[k].warning = ~dbOk /\ @,
                              !.instances[k].running = TRUE]

InitStart ==
  /\ raft = [n1 |-> "voter", n2 |-> "spare", n3 |-> "none"]
  /\ members = [n \in Names |-> IF raft[n] = "none" THEN NoRow ELSE CreatedRow]
  /\ serverClustered = [d \in Daemons |-> TRUE]
  /\ InitNodes(Daemons)
  /\ systemdSocketActivated = [d \in Daemons |-> FALSE]
  /\ tokenOps = <<>>
  /\ clusterNodesPostMu = [d \in Daemons |-> NoHolder]
  /\ tokenReq = [i \in TokenReqIds |-> IdleTokenReq]
  /\ tokenResult = NoTokenResult
  /\ lastResponse = NoResponse
  /\ nodesRoles = [n \in Names |-> {}]
  /\ handoverCall = [d \in Daemons |-> NoCall]
  /\ leaderAddress = ""
  /\ nodesInfo = [n \in Names |-> NoInfo]
  /\ updateCall = [u \in UpdateIds |-> NoUpdate]
  /\ lastEtag = <<>>
  /\ evacuation = NoEvacuation
  /\ renameCall = [r \in RenameIds |-> NoRename]
  /\ activate = NoStart

NextStart ==
  /\ \/ \E instances \in StartLists : instancesStart(instances)
     \/ instancesStartNext
     \/ \E res \in {"ok", "unavailable", "error"}, dbOk \in BOOLEAN :
          instancesStartTry(res, dbOk)
  /\ UNCHANGED activateFrame
SpecStart == InitStart /\ [][NextStart]_vars

\* ============================================= stopping the instances
\* instancesShutdown: the list is sorted by boot.stop.priority, highest first,
\* then by name; min(NumCPU, len(instances)) goroutines receive instances
\* from an unbuffered channel and shut them down; the caller's loop sends
\* the running instances and waits on the WaitGroup before an instance with
\* another priority than the one before. Names are numbers in name order.
\* What a goroutine does with its instance (the shutdown with the timeout of
\* the instance, the forced stop when that fails, the power state written
\* back) is one step: its result changes nothing in the scheduling.
MaxShutdown == 3
MaxCPUs == 3
ShutdownInstances ==
  [name : 1..MaxShutdown, running : BOOLEAN, priority : {<<>>, <<"5">>}]
ShutdownLists ==
  { l \in SeqsUpTo(ShutdownInstances, MaxShutdown) :
      \A k \in 1..(Len(l) - 1) : l[k].name > l[k + 1].name }

\* instanceStopList.Less
instanceStopLess(x, y) ==
  IF x.priority # y.priority
    THEN AtoiOrZero(x.priority) > AtoiOrZero(y.priority)
    ELSE x.name < y.name
\* sort.Sort(instanceStopList(instances))
RECURSIVE instanceStopInsert(_, _)
instanceStopInsert(x, sorted) ==
  IF sorted = <<>> THEN <<x>>
  ELSE IF instanceStopLess(x, Head(sorted)) THEN <<x>> \o sorted
  ELSE <<Head(sorted)>> \o instanceStopInsert(x, Tail(sorted))
RECURSIVE instanceStopSort(_)
instanceStopSort(instances) ==
  IF instances = <<>> THEN <<>>
  ELSE instanceStopInsert(Head(instances), instanceStopSort(Tail(instances)))

\* if i == 0 || priority != currentBatchPriority
instancesShutdownOneBatch(i, priority, currentBatchPriority) == FALSE
instancesShutdownNewBatch(i, priority, currentBatchPriority) ==
  i = 0 \/ priority # currentBatchPriority
\* maxConcurrent
instancesShutdownMaxConcurrent(cpus, instCount) ==
  IF instCount < cpus THEN instCount ELSE cpus

NoShutdown ==
  [pc |-> "idle", instances |-> <<>>, i |-> 0, currentBatchPriority |-> 0, wg |-> 0,
   workers |-> <<>>, status |-> <<>>, cpus |-> 0]

\* instancesShutdown is called: the sort, the goroutines.
instancesShutdown(instances, cpus) ==
  /\ activate.pc = "idle"
  /\ activate' =
       [NoShutdown EXCEPT
          !.pc = "loop",
          !.instances = instanceStopSort(instances),
          !.cpus = cpus,
          !.workers = [w \in 1..instancesShutdownMaxConcurrent(cpus, Len(instances))
                         |-> [pc |-> "receive", inst |-> 0]],
          !.status = [k \in 1..Len(instances) |-> ""]]

\* The head of the caller's loop for instance i (counted from 0): a stopped
\* instance is skipped; before a new batch the caller waits; else wg.Add(1)
\* and the instance is sent. After the last instance the caller waits.
instancesShutdownLoop ==
  /\ activate.pc = "loop"
  /\ IF activate.i = Len(activate.instances)
       THEN activate' = [activate EXCEPT !.pc = "final wait"]
       ELSE LET inst == activate.instances[activate.i + 1]
                priority == AtoiOrZero(inst.priority)
            IN IF ~inst.running
                 THEN activate' = [activate EXCEPT !.i = @ + 1]
               ELSE IF instancesShutdownNewBatch(activate.i, priority,
                                                 activate.currentBatchPriority)
                 THEN activate' = [activate EXCEPT !.currentBatchPriority = priority,
                                                   !.pc = "wait"]
               ELSE activate' = [activate EXCEPT !.wg = @ + 1, !.pc = "send"]

\* wg.Wait() before a batch returns, then wg.Add(1).
instancesShutdownWait ==
  /\ activate.pc = "wait"
  /\ activate.wg = 0
  /\ activate' = [activate EXCEPT !.wg = 1, !.pc = "send"]

\* instShutdownCh <- inst meets the receive of goroutine w, which begins to
\* shut the instance down; the caller goes on with the next instance.
instancesShutdownReceive(w) ==
  /\ activate.pc = "send"
  /\ w \in 1..Len(activate.workers)
  /\ activate.workers[w].pc = "receive"
  /\ activate' =
       [activate EXCEPT
          !.workers[w] = [pc |-> "shutdown", inst |-> activate.i + 1],
          !.status[activate.i + 1] = "shutting down",
          !.i = @ + 1,
          !.pc = "loop"]

\* Goroutine w is done with its instance: wg.Done(), and it receives again.
instancesShutdownDone(w) ==
  /\ w \in 1..Len(activate.workers)
  /\ activate.workers[w].pc = "shutdown"
  /\ activate' =
       [activate EXCEPT
          !.workers[w] = [pc |-> "receive", inst |-> 0],
          !.status[activate.workers[w].inst] = "done",
          !.wg = @ - 1]

\* The last wg.Wait() returns, the channel is closed, which ends the
\* goroutines, and instancesShutdown returns.
instancesShutdownReturn ==
  /\ activate.pc = "final wait"
  /\ activate.wg = 0
  /\ activate' =
       [activate EXCEPT
          !.pc = "returned",
          !.workers = [w \in 1..Len(activate.workers) |->
                         IF activate.workers[w].pc = "receive"
                           THEN [pc |-> "exited", inst |-> 0]
                           ELSE activate.workers[w]]]

InitShutdown ==
  /\ raft = [n1 |-> "voter", n2 |-> "spare", n3 |-> "none"]
  /\ members = [n \in Names |-> IF raft[n] = "none" THEN NoRow ELSE CreatedRow]
  /\ serverClustered = [d \in Daemons |-> TRUE]
  /\ InitNodes(Daemons)
  /\ systemdSocketActivated = [d \in Daemons |-> FALSE]
  /\ tokenOps = <<>>
  /\ clusterNodesPostMu = [d \in Daemons |-> NoHolder]
  /\ tokenReq = [i \in TokenReqIds |-> IdleTokenReq]
  /\ tokenResult = NoTokenResult
  /\ lastResponse = NoResponse
  /\ nodesRoles = [n \in Names |-> {}]
  /\ handoverCall = [d \in Daemons |-> NoCall]
  /\ leaderAddress = ""
  /\ nodesInfo = [n \in Names |-> NoInfo]
  /\ updateCall = [u \in UpdateIds |-> NoUpdate]
  /\ lastEtag = <<>>
  /\ evacuation = NoEvacuation
  /\ renameCall = [r \in RenameIds |-> NoRename]
  /\ activate = NoShutdown

ShutdownCall ==
  /\ \E instances \in ShutdownLists, cpus \in 1..MaxCPUs : instancesShutdown(instances, cpus)
  /\ UNCHANGED activateFrame
ShutdownLoop == instancesShutdownLoop /\ UNCHANGED activateFrame
ShutdownWait == instancesShutdownWait /\ UNCHANGED activateFrame
ShutdownReceive ==
  /\ \E w \in 1..MaxCPUs : instancesShutdownReceive(w)
  /\ UNCHANGED activateFrame
ShutdownDone ==
  /\ \E w \in 1..MaxCPUs : instancesShutdownDone(w)
  /\ UNCHANGED activateFrame
ShutdownReturn == instancesShutdownReturn /\ UNCHANGED activateFrame
NextShutdown ==
  \/ ShutdownCall
  \/ ShutdownLoop
  \/ ShutdownWait
  \/ ShutdownReceive
  \/ ShutdownDone
  \/ ShutdownReturn
SpecShutdown == InitShutdown /\ [][NextShutdown]_vars
\* The caller and the goroutines run on, and every shutdown of an instance
\* ends (with the instance stopped, forcefully after the timeout).
SpecShutdownFair ==
  /\ SpecShutdown
  /\ WF_vars(ShutdownLoop) /\ WF_vars(ShutdownWait) /\ WF_vars(ShutdownReceive)
  /\ WF_vars(ShutdownDone) /\ WF_vars(ShutdownReturn)

\* ========================================== the evacuation of a member
\* POST /1.0/cluster/members/{name}/state with action evacuate, one instance
\* after the other. evacuateClusterMember picks the target and decides, from
\* the mode and the instance, between a live migration and a stop followed
\* by a cold migration and a start; stopFunc and migrateFunc do the work. The
\* calls made for the instance at hand are kept in log.
EvacuateModes == {"auto", "live-migrate", "migrate", "stateful-stop", "force-stop", "stop"}

\* evacuateClusterMember: the migration is live when the mode allows it and
\* the instance can be migrated live; the instance is started on the target
\* unless the mode is stateful-stop.
evacuateLive(mode, canLive) == mode \in {"auto", "live-migrate"} /\ canLive
evacuateStart(mode) == mode # "stateful-stop"

\* migrateFunc after migrateInstance returned: it goes on to start the
\* instance.
migrateFuncStartsWhenLive(startInstance, live) == startInstance
migrateFuncStarts(startInstance, live) == ~(~startInstance \/ live)

\* evacuateClusterMember takes the next instance.
evacuateInstance(mode, canLive) ==
  /\ evacuation.pc \in {"idle", "done", "failed"}
  /\ evacuation.n < MaxEvacuated
  /\ evacuation' =
       [pc |-> IF evacuateLive(mode, canLive) THEN "migrate" ELSE "stop",
        mode |-> mode, live |-> evacuateLive(mode, canLive),
        startInstance |-> evacuateStart(mode), log |-> <<>>,
        n |-> evacuation.n + 1]

\* stopFunc: the instance is stopped as the mode says; an instance that is
\* stopped already is no error.
stopFunc(ok) ==
  /\ evacuation.pc = "stop"
  /\ evacuation' = [evacuation EXCEPT !.pc = IF ok THEN "migrate" ELSE "failed",
                                      !.log = Append(@, IF ok THEN "stop" ELSE "stop failed")]

\* migrateFunc up to the return of migrateInstance.
migrateFunc(ok) ==
  /\ evacuation.pc = "migrate"
  /\ evacuation' =
       [evacuation EXCEPT
          !.pc = IF ~ok THEN "failed"
                 ELSE IF migrateFuncStarts(evacuation.startInstance, evacuation.live)
                   THEN "connect"
                 ELSE "done",
          !.log = Append(@, IF ok THEN "migrate" ELSE "migrate failed")]

\* migrateFunc: cluster.Connect to the target member.
migrateFuncConnect(ok) ==
  /\ evacuation.pc = "connect"
  /\ evacuation' = [evacuation EXCEPT !.pc = IF ok THEN "start" ELSE "failed",
                                      !.log = IF ok THEN @ ELSE Append(@, "connect failed")]

\* migrateFunc: dest.UpdateInstanceState with action start, and the wait for
\* its operation.
migrateFuncStart(ok) ==
  /\ evacuation.pc = "start"
  /\ evacuation' = [evacuation EXCEPT !.pc = IF ok THEN "done" ELSE "failed",
                                      !.log = Append(@, "start")]

evacuateFrame ==
  <<tokenVars, serverName, gateway, clusterTasks, daemon, systemdSocketActivated,
    clusterPutDisableMu, h, putOps, lastPut, clusterMembershipMutex, roleVars,
    handoverVars, infoVars, activate, renameCall>>

NextEvacuate ==
  /\ \/ \E mode \in EvacuateModes, canLive \in BOOLEAN : evacuateInstance(mode, canLive)
     \/ \E ok \in BOOLEAN : stopFunc(ok)
     \/ \E ok \in BOOLEAN : migrateFunc(ok)
     \/ \E ok \in BOOLEAN : migrateFuncConnect(ok)
     \/ \E ok \in BOOLEAN : migrateFuncStart(ok)
  /\ UNCHANGED evacuateFrame

SpecEvacuate == InitInfo /\ [][NextEvacuate]_vars

\* ================================================== the stop action
\* stopFunc of clusterNodeStatePost, statement by statement, for the instances
\* evacuateClusterMember hands to it. The closure assigns the results of
\* inst.Stop (modes force-stop and stateful-stop) and of inst.VolatileSet to
\* err, the variable of the enclosing handler, which all invocations share;
\* in the branch of the other modes "val, err := strconv.Atoi(timeout)"
\* declares an err of its own. An invocation keeps: its position, the mode,
\* the calls it made, the result of the last stop call on its instance (own),
\* what it returned (ret), and the instance's volatile.last_state.power.
StopInstances == {"i1", "i2"}
StopActions == {"force-stop", "stateful-stop", "stop"}
ErrInstanceIsStopped == "ErrInstanceIsStopped"
StopResults == {"nil", ErrInstanceIsStopped, "failed"}
NoStop ==
  [pc |-> "idle", action |-> "", timeout |-> <<>>, calls |-> <<>>, shutdown |-> "",
   own |-> "", ret |-> "", power |-> ""]

\* The values of boot.host_shutdown_timeout: unset, not a number, numbers.
StopTimeouts == {<<>>, <<"a">>, <<"5">>, <<"1", "0">>, <<"1", "x">>, <<"-", "1">>, <<"-">>}

\* The timeout of the clean shutdown, in seconds.
evacuateHostShutdownDefaultTimeout == 30
stopFuncTimeout(timeout) ==
  IF AtoiFails(timeout) THEN evacuateHostShutdownDefaultTimeout ELSE Atoi(timeout)

\* err != nil && !errors.Is(err, instanceDrivers.ErrInstanceIsStopped).
stopFuncAnyError(err) == err # "nil"
stopFuncFailed(err) == err # "nil" /\ err # ErrInstanceIsStopped

\* A call on the instance: inst.Stop(stateful), inst.Shutdown(timeout
\* seconds), inst.VolatileSet.
InstanceCall(call, stateful, timeout) ==
  [call |-> call, stateful |-> stateful, timeout |-> timeout]
\* The stop call of mode action.
stopFuncStopCall(action) == InstanceCall("Stop", action = "stateful-stop", 0)

\* evacuateClusterMember calls stopFunc for an instance.
stopFuncCall(inst, action, timeout) ==
  /\ evacuation.inv[inst].pc = "idle"
  /\ evacuation' =
       [evacuation EXCEPT
          !.inv[inst] = [NoStop EXCEPT
                           !.pc = IF action \in {"force-stop", "stateful-stop"}
                                    THEN "stop" ELSE "shutdown",
                           !.action = action,
                           !.timeout = timeout]]

\* err = inst.Stop(false) or err = inst.Stop(true): the result goes to the
\* shared err.
stopFuncStop(inst, res) ==
  /\ evacuation.inv[inst].pc = "stop"
  /\ evacuation' =
       [evacuation EXCEPT
          !.err = res,
          !.inv[inst].pc = "stop check",
          !.inv[inst].own = res,
          !.inv[inst].calls = Append(@, stopFuncStopCall(evacuation.inv[inst].action))]

\* if err != nil && !errors.Is(err, ErrInstanceIsStopped): the shared err is
\* read.
stopFuncStopCheck(inst) ==
  /\ evacuation.inv[inst].pc = "stop check"
  /\ evacuation' =
       IF stopFuncFailed(evacuation.err)
         THEN [evacuation EXCEPT !.inv[inst].pc = "returned", !.inv[inst].ret = "error"]
         ELSE [evacuation EXCEPT !.inv[inst].pc = "volatile"]

\* err = inst.Shutdown(timeout), with the err of the branch; a failed
\* shutdown is followed by the forced stop.
stopFuncShutdown(inst, res) ==
  /\ evacuation.inv[inst].pc = "shutdown"
  /\ evacuation' =
       [evacuation EXCEPT
          !.inv[inst].pc = IF stopFuncAnyError(res) THEN "fallback" ELSE "volatile",
          !.inv[inst].shutdown = res,
          !.inv[inst].own = res,
          !.inv[inst].calls =
             Append(@, InstanceCall("Shutdown", FALSE,
                                    stopFuncTimeout(evacuation.inv[inst].timeout)))]

\* err = inst.Stop(false) after a failed shutdown, and its check, with the
\* err of the branch.
stopFuncFallback(inst, res) ==
  /\ evacuation.inv[inst].pc = "fallback"
  /\ evacuation' =
       [evacuation EXCEPT
          !.inv[inst].pc = IF stopFuncFailed(res) THEN "returned" ELSE "volatile",
          !.inv[inst].ret = IF stopFuncFailed(res) THEN "error" ELSE "",
          !.inv[inst].own = res,
          !.inv[inst].calls = Append(@, InstanceCall("Stop", FALSE, 0))]

\* err = inst.VolatileSet(volatile.last_state.power: RUNNING): the result
\* goes to the shared err, a failure is logged, and stopFunc returns nil.
stopFuncVolatileSet(inst, ok) ==
  /\ evacuation.inv[inst].pc = "volatile"
  /\ evacuation' =
       [evacuation EXCEPT
          !.err = IF ok THEN "nil" ELSE "failed",
          !.inv[inst].pc = "returned",
          !.inv[inst].ret = "nil",
          !.inv[inst].power = IF ok THEN PowerStateRunning ELSE @,
          !.inv[inst].calls = Append(@, InstanceCall("VolatileSet", FALSE, 0))]

\* No invocation of stopFunc is running.
NoStopRunning ==
  \A inst \in StopInstances : evacuation.inv[inst].pc \in {"idle", "returned"}

InitStop ==
  /\ raft = [n1 |-> "voter", n2 |-> "spare", n3 |-> "none"]
  /\ members = [n \in Names |-> IF raft[n] = "none" THEN NoRow ELSE CreatedRow]
  /\ serverClustered = [d \in Daemons |-> TRUE]
  /\ InitNodes(Daemons)
  /\ systemdSocketActivated = [d \in Daemons |-> FALSE]
  /\ tokenOps = <<>>
  /\ clusterNodesPostMu = [d \in Daemons |-> NoHolder]
  /\ tokenReq = [i \in TokenReqIds |-> IdleTokenReq]
  /\ tokenResult = NoTokenResult
  /\ lastResponse = NoResponse
  /\ nodesRoles = [n \in Names |-> {}]
  /\ handoverCall = [d \in Daemons |-> NoCall]
  /\ leaderAddress = ""
  /\ nodesInfo = [n \in Names |-> NoInfo]
  /\ updateCall = [u \in UpdateIds |-> NoUpdate]
  /\ lastEtag = <<>>
  /\ activate = NoProbe
  /\ renameCall = [r \in RenameIds |-> NoRename]
  /\ evacuation = [err |-> "nil", inv |-> [inst \in StopInstances |-> NoStop]]

StopSteps ==
  \/ \E inst \in StopInstances, res \in StopResults : stopFuncStop(inst, res)
  \/ \E inst \in StopInstances : stopFuncStopCheck(inst)
  \/ \E inst \in StopInstances, res \in StopResults : stopFuncShutdown(inst, res)
  \/ \E inst \in StopInstances, res \in StopResults : stopFuncFallback(inst, res)
  \/ \E inst \in StopInstances, ok \in BOOLEAN : stopFuncVolatileSet(inst, ok)

\* One instance after the other.
NextStop ==
  /\ \/ \E inst \in StopInstances, action \in StopActions, timeout \in StopTimeouts :
          NoStopRunning /\ stopFuncCall(inst, action, timeout)
     \/ StopSteps
  /\ UNCHANGED evacuateFrame
SpecStop == InitStop /\ [][NextStop]_vars

\* The instances of the worker pool of evacuateClusterMember, concurrently.
NextStopPool ==
  /\ \/ \E inst \in StopInstances, action \in StopActions :
          stopFuncCall(inst, action, <<>>)
     \/ StopSteps
  /\ UNCHANGED evacuateFrame
SpecStopPool == InitStop /\ [][NextStopPool]_vars

\* ------------------------------------------------ claims on PUT and GET
\* The branch the description of PUT /1.0/cluster gives for a body.
PutRejected(req) ==
  \/ req.enabled /\ req.server_name = ""
  \/ ~req.enabled /\ req.server_name # ""
  \/ HasPrefix(req.server_name, targetGroupPrefix)
NothingStarted == UNCHANGED <<h, putOps, serverName, serverClustered, gateway, clusterTasks, daemon>>
PutEffect(req) ==
  IF PutRejected(req)
    THEN lastPut' = [branch |-> "BadRequest", resp |-> BadRequest] /\ NothingStarted
  ELSE IF ~req.enabled
    THEN /\ lastPut' = lastPut
         /\ putOps' = putOps
         /\ \E i \in HandlerIds : h'[i].kind = "put" /\ h'[i].pc = "disable" /\ h'[i] # h[i]
  ELSE IF req.cluster_address = ""
    THEN /\ lastPut'.branch = "clusterPutBootstrap"
         /\ h' = h
         /\ \A o \in PutOpIds : putOps'[o] # putOps[o] => putOps'[o].kind = "bootstrap"
  ELSE /\ lastPut'.branch = "clusterPutJoin"
       /\ h' = h
       /\ \A o \in PutOpIds : putOps'[o] # putOps[o] => putOps'[o].kind = "join"

\* C7: every PUT /1.0/cluster step takes the branch its body selects:
\* enabled=false dissolves, enabled=true without cluster_address bootstraps,
\* enabled=true with a cluster_address joins, and a body with enabled=true and
\* no server_name, enabled=false and a server_name, or a server_name with the
\* target-group prefix is answered BadRequest with nothing started.
C7_PutSelectsBranch ==
  [][\A req \in PutBodies :
       \/ PutEffect(req)
       \/ ~\E outcome \in {"ok", "config", "address", "create"} :
             clusterPut("n1", 0, req, outcome)]_vars
\* C7 witness: a join operation was created for a join body, after a body
\* was rejected and a dissolve started.
C7_Witness ==
  /\ lastPut = [branch |-> "clusterPutJoin", resp |-> OperationResponse]
  /\ \E o \in PutOpIds : putOps[o].kind = "join"
  /\ \E i \in HandlerIds : h[i].kind = "put" /\ h[i].pc = "killed"

\* Nothing of daemon d is in flight: no handler, goroutine or operation.
Quiescent(d) ==
  /\ daemon[d] = "running"
  /\ \A i \in HandlerIds : h[i].kind # "free" => h[i].d # d
  /\ \A o \in PutOpIds : putOps[o].kind # "none" => putOps[o].d # d
\* C8: whenever nothing is in flight on the node, GET /1.0/cluster reports
\* enabled=false if and only if the node is not a member of a cluster.
C8_EnabledIffMember ==
  Quiescent("n1") => (clusterGet("n1").enabled = FALSE <=> gateway["n1"].member = "")

\* ------------------------------------------- claims on the member handlers
\* Handler i is a member's handler of a DELETE of that member itself.
SelfDelete(i) == h[i].kind = "delete" /\ ~IsLeader(h[i].d) /\ h[i].name = h[i].d
\* The process of daemon d ends in this step.
DaemonEnds(d) == daemon[d] = "running" /\ daemon'[d] # "running"
\* Handler c serves the dissolve request the leader sent while it handled the
\* delete request forwarded by handler m, and its goroutine waits to stop the
\* daemon.
CallbackOf(c, m) ==
  /\ h[c].kind = "put"
  /\ h[c].exitG = "wait"
  /\ h[c].origin = m
  /\ SelfDelete(m)
  /\ h[c].d = h[m].d

\* C1: a member that handles a DELETE of itself holds clusterPutDisableMu
\* from before it forwards the request until its goroutine releases it, and
\* the daemon does not exit or get replaced while a dissolve request the
\* leader sent for that DELETE waits to stop the daemon, unless the DELETE
\* returned its success response and the mutex was released.
C1_SelfRemovalLock ==
  /\ [](\A i \in HandlerIds :
          SelfDelete(i) =>
            /\ h[i].relG \in {"wait", "done"}
            /\ h[i].relG = "wait" => clusterPutDisableMu[h[i].d] = i
            /\ h[i].pc # "done" => h[i].relG = "wait")
  /\ [][\A c, m \in HandlerIds :
          CallbackOf(c, m) /\ DaemonEnds(h[c].d) =>
            /\ h[m].pc = "done"
            /\ h[m].resp = EmptySyncResponse
            /\ h[m].relG = "done"
            /\ clusterPutDisableMu[h[c].d] = NoHolder]_vars
\* C1 witness: the member's DELETE of itself returned success and released
\* the mutex, and the goroutine of the leader's dissolve request can now stop
\* the daemon.
C1_Witness ==
  \E c, m \in HandlerIds :
    /\ CallbackOf(c, m)
    /\ h[c].pc = "done"
    /\ h[m].pc = "done"
    /\ h[m].resp = EmptySyncResponse
    /\ h[m].relG = "done"
    /\ clusterPutDisableMu[h[c].d] = NoHolder
    /\ daemon[h[c].d] = "running"

DissolveLog == <<"reset", "kill", "response">>
\* C2: a dissolve resets Raft, then kills it, then sends its success
\* response, and the daemon ends only through a dissolve whose request has
\* finished with that response, with clusterPutDisableMu free, and with exit
\* code 0 exactly when the daemon is socket-activated.
C2_DissolveOrder ==
  /\ [](\A i \in HandlerIds :
          h[i].kind = "put" =>
            /\ \E n \in 0..3 : h[i].log = SubSeq(DissolveLog, 1, n)
            /\ h[i].resp = EmptySyncResponse <=> h[i].log = DissolveLog
            /\ h[i].exitG # "none" => Len(h[i].log) >= 2
            /\ Len(h[i].log) >= 1 /\ daemon[h[i].d] = "running" => gateway[h[i].d].member = ""
            /\ Len(h[i].log) >= 2 /\ daemon[h[i].d] = "running" => ~gateway[h[i].d].up)
  /\ [][\A d \in Daemons :
          DaemonEnds(d) =>
            /\ \E i \in HandlerIds :
                 /\ h[i].kind = "put"
                 /\ h[i].d = d
                 /\ h[i].exitG = "wait"
                 /\ h[i].pc = "done"
                 /\ h[i].log = DissolveLog
            /\ clusterPutDisableMu[d] = NoHolder
            /\ daemon'[d] = "exited 0" <=> systemdSocketActivated[d]
            /\ daemon'[d] = "replaced" <=> ~systemdSocketActivated[d]]_vars
\* C2 witness: a socket-activated daemon exited with code 0 after a dissolve.
C2_Witness ==
  /\ daemon["n2"] = "exited 0"
  /\ gateway["n2"] = [member |-> "", up |-> FALSE]

\* Handler i is in the membership-changing section of its operation.
InMembershipSection(i) ==
  /\ h[i].kind # "free"
  /\ IsLeader(h[i].d)
  /\ \/ h[i].kind = "accept" /\ h[i].pc = "locked"
     \/ h[i].kind = "handover" /\ h[i].pc \in {"locked", "assign target", "assign losing"}
     \/ h[i].kind \in RebalanceKinds /\ h[i].pc \in {"rebalance", "assign"}
\* C9: at most one handler of the leader is in the membership-changing
\* section of accept, handover or rebalance (a rebalance of member delete or
\* of the raft-node endpoint included) at a time.
C9_MembershipSerialized ==
  Cardinality({i \in HandlerIds : InMembershipSection(i)}) <= 1

\* Handler i of the leader has a request to a member that is not the leader
\* in flight.
RpcToMember(i) ==
  /\ h[i].kind # "free"
  /\ IsLeader(h[i].d)
  /\ h[i].rpc # ""
  /\ h[i].rpc # LeaderName
\* C10 as stated: no handler of the leader holds the membership mutex while
\* it has a request to a non-leader member in flight.
C10_MutexNotHeldAcrossRpc ==
  \A i \in HandlerIds : RpcToMember(i) => clusterMembershipMutex[LeaderName] # i
\* C10 amended: the delete, handover and rebalance handlers of the leader
\* hold the membership mutex while they have a request to a non-leader member
\* in flight.
C10_MutexHeldAcrossRpc ==
  \A i \in HandlerIds :
    RpcToMember(i) /\ h[i].kind \in {"delete", "handover", "rebalance"}
      => clusterMembershipMutex[LeaderName] = i
\* C10 witness: the handover handler, mutex held, has sent the assign
\* request that demotes the member handing over.
C10_Witness ==
  \E i \in HandlerIds :
    /\ h[i].kind = "handover"
    /\ h[i].pc = "assign losing"
    /\ h[i].rpc = "n2"
    /\ clusterMembershipMutex[LeaderName] = i


\* ------------------------------------------------ claims on the Raft roles
\* A request to the accept, rebalance or handover endpoint was answered by a
\* member that is not the leader.
AnsweredOffLeader ==
  /\ lastResponse.kind \in {"accept", "rebalance", "handover"}
  /\ lastResponse.d \in Daemons
  /\ ~IsLeader(lastResponse.d)
\* C11 as stated: an accept, handover or rebalance request received by a
\* member that is not the leader is never answered with a redirect.
C11_NeverRedirected ==
  AnsweredOffLeader => lastResponse.resp # SyncResponseRedirect
\* C11 amended: an accept, handover or rebalance request received by a member
\* that is not the leader is answered with a redirect to the leader, or with
\* the error of its quick check or of the leader lookup; the member runs no
\* handler for it under its membership mutex, that is, it does not serve or
\* proxy the request.
C11_NotLeaderRedirects ==
  /\ AnsweredOffLeader =>
       lastResponse.resp \in {SyncResponseRedirect, BadRequest, InternalError, SmartError}
  /\ \A i \in HandlerIds :
       h[i].kind \in {"accept", "rebalance", "handover"} => IsLeader(h[i].d)
  /\ \A d \in Daemons : ~IsLeader(d) => clusterMembershipMutex[d] = NoHolder
\* C11 witness: member n2 answered a handover request with a redirect while
\* the leader serves a request of its own.
C11_Witness ==
  /\ lastResponse = Response("handover", "n2", SyncResponseRedirect)
  /\ \E i \in HandlerIds : h[i].kind = "accept" /\ h[i].pc = "locked"

\* The rank of a Raft role, and handler i having an assign request in flight
\* that raises the role of the member it is sent to.
RoleRank(r) ==
  CASE r = "voter" -> 3 [] r = "stand-by" -> 2 [] r = "spare" -> 1 [] OTHER -> 0
AssignInFlight(i) ==
  h[i].pc \in {"assign", "assign target", "assign losing", "assign remaining"}
Promotes(i) == AssignInFlight(i) /\ RoleRank(h[i].role) > RoleRank(raft[h[i].rpc])

\* C12: every assign request that raises a member's Raft role, in rebalance,
\* in handover or when the leader of a two-node cluster removes itself, is
\* sent to a member that HasConnectivity was asked about and found
\* reachable. (The leader removing itself sends it with no probe.)
C12_PromotionsProbed ==
  \A i \in HandlerIds : Promotes(i) => h[i].probed = h[i].rpc

\* C13: at every moment the number of Raft voters is odd or zero, and at
\* most max_voters. (Roles change one member at a time: the leader of a
\* two-node cluster makes the other node a second voter before it leaves.)
C13_VotersOddOrZero ==
  /\ Cardinality(Voters) = 0 \/ Cardinality(Voters) % 2 = 1
  /\ Cardinality(Voters) <= MaxVoters

\* Handler i is a handover handler at pc; it returns in the step.
HandoverAt(i, pc) == h[i].kind = "handover" /\ h[i].pc = pc
HandlerReturns(i) == h'[i].kind = "free" \/ h'[i].pc = "done"

\* C14: in a handover on the leader the demotion of the member handing over
\* is issued only once the promotion of the target was executed and
\* succeeded, the member handing over being still a voter then; a failed
\* promotion changes no role and the request fails; with no member to
\* promote no role is changed and the request returns success (or the error
\* of cluster.Handover).
C14_PromotionThenDemotion ==
  [][\A i \in HandlerIds :
       /\ (h'[i].kind = "handover" /\ h'[i].pc = "assign losing" /\ h[i].pc # "assign losing")
            => /\ HandoverAt(i, "assign target")
               /\ raft' = [raft EXCEPT ![h[i].rpc] = "voter"]
               /\ raft'[h[i].name] = "voter"
               /\ h'[i].rpc = h[i].name
       /\ (HandoverAt(i, "assign target") /\ HandlerReturns(i))
            => /\ raft' = raft
               /\ lastResponse' = Response("handover", h[i].d, SmartError)
       /\ (HandoverAt(i, "locked") /\ h'[i] # h[i])
            => /\ raft' = raft
               /\ clusterHandover(h[i].name) = {}
                    => /\ HandlerReturns(i)
                       /\ lastResponse'.kind = "handover"
                       /\ lastResponse'.resp \in {SyncResponse, SmartError}
       /\ (HandoverAt(i, "assign losing") /\ h'[i] # h[i])
            => /\ HandlerReturns(i)
               /\ \/ raft' = [raft EXCEPT ![h[i].name] = "spare"]
                        /\ lastResponse' = Response("handover", h[i].d, SyncResponse)
                  \/ raft' = raft
                        /\ lastResponse' = Response("handover", h[i].d, SmartError)
    ]_vars
\* The target was promoted and the demotion of the member handing over is
\* in flight.
C14_Witness ==
  /\ \E i \in HandlerIds :
       /\ HandoverAt(i, "assign losing")
       /\ raft[h[i].name] = "voter"
       /\ \E n \in Names \ {LeaderName, h[i].name} : raft[n] = "voter"

\* C16: the row of a member leaves the members table only in a delete
\* request for that member whose cluster.Leave returned successfully: the
\* member is out of the Raft configuration when the request purges the row.
C16_PurgeAfterLeave ==
  [][\A n \in Names :
       (members[n] # NoRow /\ members'[n] = NoRow)
         => \E i \in HandlerIds :
              /\ h[i].kind = "delete"
              /\ h[i].name = n
              /\ h[i].pc = "purge"
              /\ h'[i].pc = "rebalance"
              /\ raft[n] = "none"
    ]_vars
\* The delete request for n2 removed it from Raft, then purged its row.
C16_Witness ==
  /\ members["n2"] = NoRow
  /\ raft["n2"] = "none"
  /\ \E i \in HandlerIds :
       h[i].kind = "delete" /\ h[i].name = "n2" /\ h[i].pc = "rebalance"

\* Handler i is the handler of a forced removal.
ForcedDelete(i) == h[i].kind = "delete" /\ h[i].force

\* C17 as stated: a forced removal goes on to purge the row whatever
\* autoSyncImages and cluster.Leave returned.
C17_ForcedAlwaysPurges ==
  [][\A i \in HandlerIds :
       (ForcedDelete(i) /\ h[i].pc = "locked" /\ h'[i] # h[i])
         => h'[i].pc = "purge"
    ]_vars
\* C17: a forced removal goes on to purge the row whatever autoSyncImages
\* returned once cluster.Leave succeeded, and returns the error of
\* cluster.Leave, the row left in place, when it failed; it never sends the
\* departing member a clean-up or dissolve request.
C17_ForcedPurgesAfterLeave ==
  /\ [](\A i \in HandlerIds :
          ForcedDelete(i) => h[i].pc \notin {"cleanup", "dissolve", "forward", "forwarded"}
                             /\ (h[i].rpc # "" => h[i].rpc # h[i].name))
  /\ [][\A i \in HandlerIds :
          (ForcedDelete(i) /\ h[i].pc = "locked" /\ h'[i] # h[i])
            => \/ h'[i].pc = "purge" /\ raft'[h[i].name] = "none"
               \/ /\ HandlerReturns(i)
                  /\ raft' = raft
                  /\ members' = members
     ]_vars
\* A forced removal of n2 purged its row and is about to rebalance.
C17_Witness ==
  \E i \in HandlerIds :
    /\ ForcedDelete(i)
    /\ h[i].name = "n2"
    /\ h[i].pc = "rebalance"
    /\ members["n2"] = NoRow

\* The joiner's request declares every created storage pool of the cluster
\* with its driver and its config but for the source, and every created
\* network that is not an OVN network with its project, its type and its
\* config but for the parent.
PoolsDeclared(req) ==
  \A pool \in ClusterPools :
    pool.state = "created" =>
      \E j \in 1..Len(req.storage_pools) :
        /\ req.storage_pools[j].name = pool.name
        /\ req.storage_pools[j].driver = pool.driver
        /\ req.storage_pools[j].config.size = pool.config.size
NetworksDeclared(req) ==
  \A network \in ClusterNetworks :
    (network.state = "created" /\ network.type # "ovn") =>
      \E j \in 1..Len(req.networks) :
        /\ req.networks[j].name = network.name
        /\ req.networks[j].project = network.project
        /\ req.networks[j].type = network.type
        /\ req.networks[j].config.mtu = network.config.mtu
AcceptLocked(i) == h[i].kind = "accept" /\ h[i].pc = "locked"

\* C18: accept on the leader answers success, with the Raft configuration
\* and the private key, only to a request that declares every created pool
\* and every created non-OVN network as the cluster has them; the pending
\* row is inserted in the step that answers success, and a request that
\* fails inserts none.
C18_AcceptChecksPoolsAndNetworks ==
  /\ [](\A i \in HandlerIds :
          AcceptLocked(i) =>
            \A req \in AcceptBodies, outcome \in {"ok", "pools", "networks", "accept"} :
              LET r == internalClusterPostAcceptResponse(members, h[i].name, req, outcome)
              IN r.resp = SyncResponse
                   => /\ PoolsDeclared(req)
                      /\ NetworksDeclared(req)
                      /\ r.raft_nodes = raft
                      /\ r.private_key)
  /\ [][\A i \in HandlerIds :
          (AcceptLocked(i) /\ h'[i] # h[i])
            => /\ lastResponse'.kind = "accept"
               /\ IF lastResponse'.resp = SyncResponse
                    THEN /\ members[h[i].name] = NoRow
                         /\ members' = [members EXCEPT ![h[i].name] = PendingRow]
                         /\ lastResponse'.raft_nodes = raft
                         /\ lastResponse'.private_key
                    ELSE members' = members
     ]_vars
\* n3 was accepted: its row is pending and the response has the Raft
\* configuration and the private key.
C18_Witness ==
  /\ members["n3"] = PendingRow
  /\ lastResponse.kind = "accept"
  /\ lastResponse.resp = SyncResponse
  /\ lastResponse.private_key
  /\ lastResponse.raft_nodes = raft

\* The name or the address of an accept request is that of a member.
DuplicateMember(name, address) ==
  \/ members[name] # NoRow
  \/ \E n \in Names : members[n] # NoRow /\ Address(n) = address
Conflict == "Conflict 409"
\* The request passes the checks of its storage pools and networks.
PassesChecks(req) ==
  /\ clusterCheckStoragePoolsMatch(req.storage_pools)
  /\ clusterCheckNetworksMatch(req.networks)

\* C19 as stated: an accept request with the name or the address of a member
\* (that passes the checks of its pools and networks) is answered Conflict
\* (409).
C19_DuplicateIsConflict ==
  \A i \in HandlerIds :
    AcceptLocked(i) =>
      \A req \in AcceptBodies :
        (DuplicateMember(h[i].name, req.address) /\ PassesChecks(req))
          => internalClusterPostAcceptResponse(members, h[i].name, req, "ok").resp = Conflict
\* C19: an accept request with the name or the address of a member that
\* passes the checks of its pools and networks is answered with a bad
\* request (400); whatever its pools and networks it is not answered
\* success, and the members table is left as it was.
C19_DuplicateIsBadRequest ==
  /\ [](\A i \in HandlerIds :
          AcceptLocked(i) =>
            \A req \in AcceptBodies :
              LET r == internalClusterPostAcceptResponse(members, h[i].name, req, "ok")
              IN DuplicateMember(h[i].name, req.address)
                   => /\ r.resp \in {BadRequest, SmartError}
                      /\ PassesChecks(req) => r.resp = BadRequest)
  /\ [][\A i \in HandlerIds :
          (AcceptLocked(i) /\ h'[i] # h[i] /\ members[h[i].name] # NoRow)
            => /\ members' = members
               /\ lastResponse'.kind = "accept"
               /\ lastResponse'.name = h[i].name
               /\ lastResponse'.resp \in {BadRequest, SmartError}
     ]_vars
\* The leader refused to accept a joiner named n2, the name of a member.
C19_Witness ==
  /\ lastResponse.kind = "accept"
  /\ lastResponse.name = "n2"
  /\ lastResponse.resp = BadRequest
  /\ members["n2"].state = "created"

\* ------------------------------------------------ claims on the handover
\* C15: a member handing over its role sends the handover request only to
\* a leader it looked up and found to be another member; when the lookup
\* names the member itself it transfers leadership and looks the leader up
\* again, and an unknown leader, a failed lookup or a failed transfer end
\* the call with an error; a node that is not clustered does nothing.
C15_NeverSendsAsLeader ==
  /\ [](\A d \in Daemons :
          LET c == handoverCall[d]
          IN /\ c.pc \in {"connect", "sent"} => c.leader \notin {"", localClusterAddress(d)}
             /\ c.pc = "transfer" => c.leader = localClusterAddress(d)
             /\ ~serverClustered[d] => c.pc \in {"idle", "nil"} /\ c.transfers = 0
             /\ c.pc = "nil" => ~serverClustered[d])
  /\ [][\A d \in Daemons :
          LET c == handoverCall[d]
              n == handoverCall'[d]
          IN /\ (n.pc = "connect" /\ c.pc # "connect")
                  => c.pc = "findLeader" /\ n.leader = leaderAddress
             /\ (c.pc = "transfer" /\ n.pc # "transfer")
                  => \/ n.pc = "findLeader" /\ leaderAddress' # localClusterAddress(d)
                     \/ n.pc = "error" /\ leaderAddress' = leaderAddress
             /\ (c.pc = "findLeader" /\ n.pc = "error")
                  => n.leader = ""
             /\ (n.pc = "sent" /\ c.pc # "sent") => c.pc = "connect" /\ n.leader = c.leader
     ]_vars
\* The member was the leader twice, transferred leadership each time, and
\* then sent the request to the leader it found.
C15_Witness ==
  /\ handoverCall["n1"].pc = "sent"
  /\ handoverCall["n1"].transfers = MaxTransfers

\* ------------------------------------------- claims on updating a member
\* Member n shows the database role.
HasDatabaseRole(n) == ClusterRoleDatabase \in ToAPIRoles(n)
\* The request adds the database role to member n, or removes it.
ChangesDatabaseRole(n, req) == HasDatabaseRole(n) # (ClusterRoleDatabase \in req.roles)

\* C20: a PUT or PATCH whose roles have database while the member lacks it,
\* or lack database while the member has it, is answered with an error and
\* changes nothing; every request leaves the database role of every member
\* as it was, and database is never among the roles stored for a member.
C20_DatabaseRoleKept ==
  /\ [](\A n \in Names, req \in UpdateBodies, ifMatch \in {<<>>, <<ZeroPut>>} :
          ChangesDatabaseRole(n, req)
            => updateClusterNodeResponse(n, req, ifMatch)
                 \in {BadRequest, SmartError, PreconditionFailed})
  /\ [](\A n \in Names : ClusterRoleDatabase \notin nodesRoles[n])
  /\ [][/\ lastResponse' # lastResponse
           => \A n \in Names : HasDatabaseRole(n)' = HasDatabaseRole(n)
        /\ (lastResponse' # lastResponse /\ lastResponse'.resp # EmptySyncResponse)
           => nodesRoles' = nodesRoles /\ raft' = raft
        /\ nodesRoles' # nodesRoles
           => /\ lastResponse'.resp = EmptySyncResponse
              /\ \A n \in Names : nodesRoles'[n] # nodesRoles[n] => lastResponse'.name = n
     ]_vars
\* A request that kept the database role of voter n2 gave it another role.
C20_Witness ==
  /\ lastResponse.kind \in {"put", "patch"}
  /\ lastResponse.name = "n2"
  /\ lastResponse.resp = EmptySyncResponse
  /\ HasDatabaseRole("n2")
  /\ nodesRoles["n2"] = {"ovn-chassis"}

\* -------------------------------------- claims on the stored member data
\* C21: every member in state created belongs to at least one cluster
\* group, after a bootstrap, at every point of a join and after any update.
C21_CreatedHasGroup ==
  \A n \in Names : members[n].state = "created" => nodesInfo[n].groups # {}
\* The update of a member with an empty list of groups is answered with
\* BadRequest, and the groups stored by an update are never empty.
C21_UpdateKeepsGroup ==
  /\ [](\A n \in Names, body \in GroupBodies :
          (members[n] # NoRow /\ body.groups = {})
            => updateClusterNodeResponse(n, body, <<>>) = BadRequest)
  /\ [][\A n \in Names :
          (lastResponse'.kind \in {"put", "patch"} /\ nodesInfo'[n] # nodesInfo[n]
             /\ lastResponse' # lastResponse)
            => nodesInfo'[n].groups # {}]_vars
\* The join of n1 ended with an error after cluster.Join: the row is created
\* and in no group.
C21_Witness ==
  /\ members["n1"].state = "created"
  /\ nodesInfo["n1"].groups = {}
  /\ ~serverClustered["n1"]

\* The key and value are among those a member's config may hold.
ValidConfigKey(k, v) ==
  \/ HasPrefix(k, "user.")
  \/ k = "scheduler.instance" /\ v \in {"", "all", "group", "manual"}
ValidConfig(config) == \A k \in DOMAIN config : ValidConfigKey(k, config[k])
\* Call u ends with this step.
UpdateEnds(u) == updateCall[u].pc = "update" /\ updateCall'[u].pc = "idle"

\* C22: every config key stored for a member is a user key or
\* scheduler.instance with one of the values all, group, manual or none; an
\* update whose config has another key or value is answered with an error
\* and changes nothing of what is stored.
C22_StoredConfigValid ==
  /\ [](\A n \in Names : ValidConfig(nodesInfo[n].config))
  /\ [][\A u \in UpdateIds :
          (UpdateEnds(u) /\ ~ValidConfig(updateCall[u].req.config))
            => /\ lastResponse'.resp = SmartError
               /\ nodesInfo' = nodesInfo
               /\ nodesRoles' = nodesRoles]_vars
\* A PATCH added scheduler.instance to the user key stored for n2.
C22_Witness ==
  /\ lastResponse.kind = "patch"
  /\ lastResponse.resp = EmptySyncResponse
  /\ nodesInfo["n2"].config = ("user.1" :> "b") @@ ("scheduler.instance" :> "group")

\* An update of an existing member whose If-Match is not the ETag of the
\* member is answered with PreconditionFailed, and a step that answers so
\* leaves what is stored as it was.
C23_MismatchRejected ==
  /\ [](\A n \in Names, body \in EtagBodies :
          (members[n] # NoRow /\ lastEtag # <<>> /\ lastEtag[1] # ClusterMemberPut(n))
            => updateClusterNodeResponse(n, body, lastEtag) = PreconditionFailed)
  /\ [][(lastResponse' # lastResponse /\ lastResponse'.resp = PreconditionFailed)
          => nodesInfo' = nodesInfo /\ nodesRoles' = nodesRoles]_vars
\* An update sent with an ETag is applied to the member as it was when the
\* ETag was checked.
C23_AppliedOnCheckedState ==
  [][\A u \in UpdateIds :
       (UpdateEnds(u) /\ updateCall[u].ifMatch # <<>>
          /\ lastResponse'.resp = EmptySyncResponse)
         => ClusterMemberPut(updateCall[u].name) = updateCall[u].memberInfo]_vars
\* C23: an update whose ETag does not match fails with PreconditionFailed
\* and changes nothing, and an update whose ETag matched when it was checked
\* is never applied on top of an update committed in between.
C23_EtagGuardsUpdate == C23_MismatchRejected /\ C23_AppliedOnCheckedState
\* Two updates sent with the same ETag passed the check; the first was
\* applied, and the second is about to be.
C23_Witness ==
  \E u \in UpdateIds :
    /\ updateCall[u].pc = "update"
    /\ updateCall[u].ifMatch # <<>>
    /\ ClusterMemberPut("n2") # updateCall[u].memberInfo
    /\ lastResponse.resp = EmptySyncResponse

\* Field f of the member of call c is after the step what it was before.
KeepsField(c, f) ==
  IF f = "roles" THEN nodesRoles'[c.name] = nodesRoles[c.name]
  ELSE nodesInfo'[c.name][f] = nodesInfo[c.name][f]
\* C24: an accepted PATCH leaves every config key, and the description,
\* roles, failure domain and groups, that its body lacks as they are stored;
\* an accepted PUT stores the request as a whole.
C24_PatchKeepsOmitted ==
  [][\A u \in UpdateIds :
       (UpdateEnds(u) /\ lastResponse'.resp = EmptySyncResponse)
         => LET c == updateCall[u]
            IN IF c.isPatch
                 THEN /\ \A f \in {"description", "roles", "failure_domain", "groups"} :
                           f \notin DOMAIN c.body => KeepsField(c, f)
                      /\ \A k \in DOMAIN nodesInfo[c.name].config :
                           ("config" \notin DOMAIN c.body \/ k \notin DOMAIN c.body.config)
                             => /\ k \in DOMAIN nodesInfo'[c.name].config
                                /\ nodesInfo'[c.name].config[k] = nodesInfo[c.name].config[k]
                 ELSE /\ nodesInfo'[c.name] =
                           [f \in DOMAIN NoInfo |-> c.req[f]]
                      /\ nodesRoles'[c.name] = UpdateNodeRoles(c.req.roles)]_vars
\* The same for the config alone, which a PATCH does merge.
C24_PatchKeepsOmittedConfig ==
  [][\A u \in UpdateIds :
       (UpdateEnds(u) /\ lastResponse'.resp = EmptySyncResponse /\ updateCall[u].isPatch)
         => LET c == updateCall[u]
            IN \A k \in DOMAIN nodesInfo[c.name].config :
                 ("config" \notin DOMAIN c.body \/ k \notin DOMAIN c.body.config)
                   => /\ k \in DOMAIN nodesInfo'[c.name].config
                      /\ nodesInfo'[c.name].config[k] = nodesInfo[c.name].config[k]]_vars
\* The same for the description alone, which a PATCH without one erases.
C24_PatchKeepsOmittedDescription ==
  [][\A u \in UpdateIds :
       (UpdateEnds(u) /\ lastResponse'.resp = EmptySyncResponse /\ updateCall[u].isPatch
          /\ "description" \notin DOMAIN updateCall[u].body)
         => KeepsField(updateCall[u], "description")]_vars
\* A PATCH without description, roles and failure domain was applied to a
\* member that had all three: they are gone.
C24_Witness ==
  /\ lastResponse.kind = "patch"
  /\ lastResponse.resp = EmptySyncResponse
  /\ nodesInfo["n2"].config = ("user.1" :> "a") @@ ("scheduler.instance" :> "group")
  /\ nodesInfo["n2"].description = ""

\* ------------------------------------------ claims on renaming a member
\* Rename r answers with success in this step.
RenameReturns(r) == renameCall[r].pc = "renamed" /\ renameCall'[r].pc = "idle"

\* C25: when a rename of a to b answers with success, b names the member,
\* a names none, and the server name of the renamed daemon is b; a rename
\* that fails leaves the rows and the server name as they were.
C25_RenameTakesEffect ==
  [][/\ \A r \in RenameIds :
          RenameReturns(r)
            => /\ members'[renameCall[r].new] # NoRow
               /\ members'[renameCall[r].old] = NoRow
               /\ serverName'[RenamedDaemon] = renameCall[r].new
     /\ (lastResponse' # lastResponse /\ lastResponse'.resp # EmptySyncResponse)
          => members' = members /\ serverName' = serverName
    ]_vars
\* When no rename is in progress the server name of the renamed daemon is
\* the name of its row.
C25_ServerNameIsRowName ==
  (\A r \in RenameIds : renameCall[r].pc = "idle")
    => members[serverName[RenamedDaemon]] # NoRow
\* Two renames answered with success and the server name is that of the
\* first, the row that of the second.
C25_Witness ==
  /\ \A r \in RenameIds : renameCall[r].pc = "idle"
  /\ lastResponse.kind = "rename"
  /\ lastResponse.resp = EmptySyncResponse
  /\ serverName[RenamedDaemon] = "n3"
  /\ members["n3"] = NoRow
  /\ members["n1"] # NoRow

\* ------------------------------------------ claims on the activation probe
\* The probe ran as root and none of its calls failed.
ProbeRan == activate.pc = "done" /\ activate.input.root /\ activate.outcome = "ok"
\* Some instance or volume of the sequence satisfies P.
SomeInstance(P(_)) == \E i \in 1..Len(activate.input.instances) : P(activate.input.instances[i])
ScheduledVolume == \E i \in 1..Len(activate.input.volumes) : activate.input.volumes[i] # ""
StatedAutoStart(inst) == inst.autostart = "true" \/ inst.last_state = PowerStateRunning
CodeAutoStart(inst) ==
  \/ inst.autostart = "true"
  \/ inst.autostart = "" /\ inst.last_state = PowerStateRunning
  \/ inst.running
Scheduled(inst) == inst.schedule # ""

CallAt(c) ==
  IF \A i \in 1..Len(evacuation.log) : evacuation.log[i] # c THEN 0
  ELSE CHOOSE i \in 1..Len(evacuation.log) : evacuation.log[i] = c
\* The instance at hand has been dealt with.
Handled == evacuation.pc \in {"done", "failed"}
\* The calls for one instance are in order: the stop before the migration,
\* the start after the migration returned success; after a migration that
\* failed there is no start.
EvacuationOrdered ==
  /\ (CallAt("stop") > 0 /\ CallAt("migrate") > 0) => CallAt("stop") < CallAt("migrate")
  /\ CallAt("start") > 0 => (CallAt("migrate") > 0 /\ CallAt("migrate") < CallAt("start"))
  /\ CallAt("migrate failed") > 0 => CallAt("start") = 0
  /\ (CallAt("stop") = 0 /\ CallAt("migrate") > 0) => evacuation.live

\* C27 as stated: the calls are ordered, and the start is issued exactly
\* when the migration returned success, was not live and a start was asked.
C27_StartExactlyWhenStated ==
  /\ EvacuationOrdered
  /\ Handled
       => (CallAt("start") > 0
             <=> (CallAt("migrate") > 0 /\ ~evacuation.live /\ evacuation.startInstance))
\* C27, amended: the same, when the connection to the target member
\* succeeded; when it fails no start is issued.
C27_StartExactlyWhen ==
  /\ EvacuationOrdered
  /\ Handled
       => (CallAt("start") > 0
             <=> (CallAt("migrate") > 0 /\ ~evacuation.live /\ evacuation.startInstance
                    /\ CallAt("connect failed") = 0))
\* An instance was stopped, migrated and started on the target.
C27_Witness ==
  /\ evacuation.pc = "done"
  /\ evacuation.log = <<"stop", "migrate", "start">>

\* ---------------------------------------------------------------- C28
\* A handler leaves position pc with the response r logged.
AnswersFrom(i, pc, r) ==
  /\ h[i].kind = "delete"
  /\ h[i].pc = pc
  /\ h'[i] # h[i]
  /\ lastResponse' = Response("delete", h[i].d, r)
\* The leader leaves a Raft configuration of two nodes only when the other
\* node is a voter.
LeaderLeavesAfterPromotion ==
  (raft[LeaderName] # "none" /\ raft'[LeaderName] = "none"
     /\ Cardinality(GetRaftNodes) = 2)
    => \A n \in GetRaftNodes \ {LeaderName} : raft[n] = "voter"
\* A promotion of the remaining node that fails ends the removal: the handler
\* returns the error, and neither the Raft configuration nor the member table
\* changes.
FailedPromotionAborts ==
  \A i \in HandlerIds :
    (h[i].pc = "assign remaining" /\ h'[i] # h[i] /\ raft'[h[i].rpc] # "voter")
      => /\ raft' = raft
         /\ members' = members
         /\ h'[i].kind = "free" \/ h'[i].pc = "done"
         /\ lastResponse' = Response("delete", h[i].d, SmartError)
\* The remaining node that forwarded the removal answers with success only
\* after UpdateCertificateCache, which it reaches only from WaitLeadership
\* and as the Raft leader: a voter of a configuration the former leader left.
RemainingWaitsLeadership ==
  \A i \in HandlerIds :
    /\ (h[i].kind = "delete" /\ gateway[h[i].d].member = RemainingName
          /\ h[i].name = LeaderName /\ h[i].nodes = 2 /\ h[i].pc # "done"
          /\ (h'[i].kind = "free" \/ h'[i].pc = "done")
          /\ lastResponse'.resp = EmptySyncResponse)
         => h[i].pc = "update certificates"
    /\ (h[i].kind = "delete" /\ h[i].pc # "update certificates"
          /\ h'[i].kind = "delete" /\ h'[i].pc = "update certificates")
         => /\ h[i].pc = "wait leadership"
            /\ raft[gateway[h[i].d].member] = "voter"
            /\ raft[LeaderName] = "none"
\* C28 for the Raft nodes as the handler read them before it forwarded the
\* request: the remaining node is a voter before the leader leaves Raft, a
\* failed promotion aborts the removal with no membership change, and the
\* remaining node that read two Raft nodes refreshes its certificate cache and
\* answers with success only after WaitLeadership returned with it as the
\* Raft leader.
C28_RemainingPromotedAndLeads ==
  [][LeaderLeavesAfterPromotion /\ FailedPromotionAborts /\ RemainingWaitsLeadership]_vars
\* The remaining node read three Raft nodes, the third was removed since, and
\* the leader left a configuration of two: the remaining node is the only
\* node left when it answers with success.
RemainingWaitsLeadershipNow ==
  \A i \in HandlerIds :
    (h[i].kind = "delete" /\ gateway[h[i].d].member = RemainingName
       /\ h[i].name = LeaderName /\ h[i].pc # "done"
       /\ h[i].nodes = 3
       /\ GetRaftNodes = {RemainingName}
       /\ (h'[i].kind = "free" \/ h'[i].pc = "done")
       /\ lastResponse'.resp = EmptySyncResponse)
      => h[i].pc = "update certificates"
\* C28: when the leader of a cluster of two Raft nodes is removed on a
\* request the remaining node received, the remaining node answers with
\* success only after WaitLeadership and UpdateCertificateCache, also when the
\* cluster had three Raft nodes at the time the request arrived.
C28_RemainingWaitsWhenTwoAtRemoval == [][RemainingWaitsLeadershipNow]_vars
\* The remaining node answered with success the request to remove the leader
\* of what had become a cluster of two Raft nodes, and it is the only node
\* left.
C28_Witness ==
  /\ GetRaftNodes = {RemainingName}
  /\ lastResponse = Response("delete", RemainingName, EmptySyncResponse)
  /\ \E i \in HandlerIds :
       /\ h[i].kind = "delete"
       /\ h[i].d = RemainingName
       /\ h[i].name = LeaderName
       /\ h[i].pc = "done"
       /\ h[i].resp = EmptySyncResponse
       /\ h[i].nodes = 3
\* The remaining node of a cluster of two waits: promoted from stand-by or
\* spare, it is the only voter left and refreshes its certificate cache.
RemainingRefreshesAsLeader ==
  \E i \in HandlerIds :
    /\ h[i].kind = "delete"
    /\ h[i].pc = "update certificates"
    /\ h[i].d = RemainingName
    /\ h[i].nodes = 2
    /\ raft = [n1 |-> "none", n2 |-> "voter", n3 |-> "none"]

\* ---------------------------------------------------------------- C29
\* The handler whose step this is, of one of the four kinds.
MembershipHandlers == {"accept", "rebalance", "handover", "delete"}
StepOf(i) == h[i].kind \in MembershipHandlers /\ h'[i] # h[i]
\* A handler takes the membership mutex on a member only when the leader
\* address it just looked up is the member's own.
C29_LocksAsLeader ==
  [][\A d \in Daemons :
       (clusterMembershipMutex'[d] # clusterMembershipMutex[d]
          /\ clusterMembershipMutex'[d] # NoHolder) => RaftLeaderIs(d)]_vars
\* C29: the Raft configuration and the member table change only in a step of
\* an accept, rebalance, handover or delete handler whose member is the Raft
\* leader at the time of that step.
C29_OnlyLeaderChangesMembership ==
  [][(raft' # raft \/ members' # members)
       => \E i \in HandlerIds : StepOf(i) /\ RaftLeaderIs(h[i].d)]_vars
\* n1 lost leadership to n2 while its delete handler held the membership
\* mutex, and the handler went on: the member it removes has left Raft and
\* its row is gone.
C29_Witness ==
  /\ RaftLeaderIs("n2")
  /\ \E i \in HandlerIds :
       /\ h[i].kind = "delete"
       /\ h[i].d = LeaderName
       /\ h[i].pc = "rebalance"
       /\ clusterMembershipMutex[LeaderName] = i
       /\ raft[h[i].name] = "none"
       /\ members[h[i].name] = NoRow

\* ---------------------------------------------------------------- C30
\* The loop is in handler i.
InLoop(i) == h[i].kind = "rebalance" /\ h[i].pc \in {"rebalance", "assign"}
Ends(i) == InLoop(i) /\ h'[i].kind = "free"
\* The bound on the role changes of a call never stops the loop: a call that
\* made that many changes is proposed no further one.
LoopEndsByItself ==
  \A i \in HandlerIds :
    (InLoop(i) /\ h[i].pc = "rebalance" /\ clusterRebalance # {})
      => h[i].rounds < MaxRoleChanges
\* The loop ends with success when the rebalancer proposes no change, when
\* it proposes a promotion (whose target was unreachable), or when the daemon
\* was shutting down at the call; else it ends with the error; a round that
\* does not end the loop changes one role or sends one assign request.
LoopEndsFor ==
  \A i \in HandlerIds :
    /\ (Ends(i) /\ lastResponse' = Response("rebalance", h[i].d, SyncResponse))
         => /\ h[i].pc = "rebalance"
            /\ raft' = raft
            /\ \/ clusterRebalance = {}
               \/ \E p \in clusterRebalance : p[2] # "spare"
               \/ ShuttingDown(h[i].d) /\ h[i].rounds = 0
    /\ Ends(i) => lastResponse'.resp \in {SyncResponse, SmartError}
    /\ (InLoop(i) /\ h'[i] # h[i] /\ ~Ends(i) /\ h[i].pc = "rebalance")
         => h'[i].rounds = h[i].rounds + 1
\* Called while the daemon is shutting down, the function returns at once
\* and changes no role.
ShutdownReturnsAtOnce ==
  \A i \in HandlerIds :
    (InLoop(i) /\ h[i].rounds = 0 /\ ShuttingDown(h[i].d) /\ h'[i] # h[i])
      => /\ Ends(i)
         /\ raft' = raft
         /\ lastResponse' = Response("rebalance", h[i].d, SyncResponse)
\* C30: rebalanceMemberRoles terminates from any membership and reachability
\* state when every assign and demote call returns: the loop ends after
\* finitely many role changes, with success when the rebalancer proposes no
\* further change or a promotion target is unreachable, on the first error
\* otherwise; called while the daemon is shutting down it returns at once
\* without changing any role.
C30_RebalanceTerminates ==
  /\ [][LoopEndsFor /\ ShutdownReturnsAtOnce]_vars
  /\ []LoopEndsByItself
  /\ \A i \in HandlerIds : InLoop(i) ~> ~InLoop(i)
\* The loop made four role changes, the most the model finds, and the
\* rebalancer proposes no further one.
C30_Witness ==
  \E i \in HandlerIds :
    /\ InLoop(i)
    /\ h[i].pc = "rebalance"
    /\ h[i].rounds = 4
    /\ clusterRebalance = {}
\* The daemon started shutting down before the first round of a call.
C30_WitnessShutdown ==
  \E i \in HandlerIds :
    InLoop(i) /\ h[i].rounds = 0 /\ ShuttingDown(h[i].d) /\ clusterRebalance # {}

\* ---------------------------------------------------------------- C31
\* changeMemberRole failed in the loop of handler i: the assign request did
\* not bring the handler back to the top of the loop.
AssignFailedIn(i) ==
  /\ h[i].kind \in {"delete", "rebalance", "raftdelete"}
  /\ h[i].pc = "assign"
  /\ h'[i] # h[i]
  /\ ~(h'[i].kind = h[i].kind /\ h'[i].pc = "rebalance")
SuccessOf(kind) == IF kind = "delete" THEN EmptySyncResponse ELSE SyncResponse
\* C31 as stated: an error of the rebalancer fails none of the requests that
\* triggered it, the member delete, the raft-node removal and the rebalance
\* request answer with success.
C31_RebalanceErrorFailsNone ==
  [][\A i \in HandlerIds :
       AssignFailedIn(i)
         => lastResponse' = Response(h[i].kind, h[i].d, SuccessOf(h[i].kind))]_vars
\* C31: an error of the rebalancer does not fail the member delete or the
\* raft-node removal that triggered it, which answer with success whatever
\* the loop did; the rebalance request returns the error.
C31_RebalanceErrorFailsRequestOnly ==
  [][\A i \in HandlerIds :
       /\ AssignFailedIn(i)
            => lastResponse' = Response(h[i].kind, h[i].d,
                                        IF h[i].kind = "rebalance" THEN SmartError
                                        ELSE SuccessOf(h[i].kind))
       /\ (h[i].kind \in {"delete", "raftdelete"} /\ h[i].pc \in {"rebalance", "assign"}
             /\ h'[i].kind = "free")
            => lastResponse' = Response(h[i].kind, h[i].d, SuccessOf(h[i].kind))]_vars
\* A forced member delete answered with success although the rebalancer it
\* triggered made a change and has another one left to make.
C31_Witness ==
  /\ lastResponse = Response("delete", LeaderName, EmptySyncResponse)
  /\ \A i \in HandlerIds : h[i].kind = "free"
  /\ \E n \in Names : members[n] = NoRow /\ \E m \in RaftInits : m[n] # "none" /\ raft[n] = "none"
  /\ \E p \in clusterRebalance : p[2] = "spare"

\* A request that looks the leader up is answered before it runs a handler:
\* the step logs a response and starts or ends no handler.
AnsweredAtLookup == h' = h /\ lastResponse' # lastResponse
StartsHandler == \E i \in HandlerIds : h[i].kind = "free" /\ h'[i].kind # "free"
\* C32 as stated: while the leader address is unknown, an accept, handover,
\* rebalance or member-delete request received by a member fails with
\* Unavailable; none is answered with a redirect to an empty leader address,
\* and none goes on as if the member were the leader.
C32_UnknownLeaderUnavailable ==
  [][leaderAddress = "" =>
       /\ ~StartsHandler
       /\ AnsweredAtLookup =>
            /\ lastResponse'.resp = Unavailable
            /\ lastResponse'.url = ""]_vars
\* C32, the part the code keeps: while the leader address is unknown, no
\* accept, handover, rebalance or delete handler starts on any member, and
\* the accept, handover and delete requests are answered with an error.
C32_UnknownLeaderNotServed ==
  [][leaderAddress = "" =>
       /\ ~StartsHandler
       /\ AnsweredAtLookup /\ lastResponse'.kind # "rebalance" =>
            lastResponse'.resp = SmartError]_vars
\* C32: no response is a redirect to an empty leader address. (The
\* rebalance request is redirected to "https://" when no leader is known.)
C32_NoRedirectToEmptyLeader ==
  lastResponse.resp = SyncResponseRedirect => lastResponse.url # "https://"
\* C32 witness: member n2 answered a rebalance request with a redirect whose
\* host is empty while no leader is known.
C32_Witness ==
  /\ leaderAddress = ""
  /\ lastResponse = Redirected("rebalance", "n2", SyncResponseRedirect, "")

\* The invocations of stopFunc that returned, and the timeout the
\* description gives for each value of boot.host_shutdown_timeout.
StopsReturned == {evacuation.inv[inst] : inst \in {x \in StopInstances : evacuation.inv[x].ret # ""}}
ShutdownTimeoutOf(timeout) ==
  CASE timeout = <<"5">> -> 5
    [] timeout = <<"1", "0">> -> 10
    [] timeout = <<"-", "1">> -> 0 - 1
    [] OTHER -> evacuateHostShutdownDefaultTimeout
StopCallsOf(v) == {k \in 1..Len(v.calls) : v.calls[k].call = "Stop"}
\* The stop operation of an invocation follows its mode: force-stop is one
\* forced stop, stateful-stop one stateful stop, every other mode a clean
\* shutdown with the timeout of the instance, followed by a forced stop only
\* if the shutdown failed; a stop that found the instance stopped is no
\* error; an error is returned only when the stop failed.
StopFollowsMode(v) ==
  /\ v.action = "force-stop" =>
       v.calls[1] = InstanceCall("Stop", FALSE, 0) /\ StopCallsOf(v) = {1}
  /\ v.action = "stateful-stop" =>
       v.calls[1] = InstanceCall("Stop", TRUE, 0) /\ StopCallsOf(v) = {1}
  /\ v.action \notin {"force-stop", "stateful-stop"} =>
       /\ v.calls[1] = InstanceCall("Shutdown", FALSE, ShutdownTimeoutOf(v.timeout))
       /\ IF v.shutdown = "nil"
            THEN StopCallsOf(v) = {}
            ELSE StopCallsOf(v) = {2} /\ v.calls[2] = InstanceCall("Stop", FALSE, 0)
  /\ v.own = ErrInstanceIsStopped => v.ret = "nil"
  /\ v.ret = "error" <=> v.own = "failed"
\* C33 as stated: the stop action maps the mode to the stop operation, an
\* instance that is stopped already is no error, and whenever the stop action
\* returned success, volatile.last_state.power=RUNNING is recorded for the
\* instance.
C33_StopRecordsRunning ==
  \A v \in StopsReturned :
    /\ StopFollowsMode(v)
    /\ v.ret = "nil" => v.power = PowerStateRunning
\* C33 amended: the stop action maps the mode to the stop operation, an
\* instance that is stopped already is no error, and whenever the stop action
\* returned success it has asked, as its last call, for
\* volatile.last_state.power=RUNNING to be recorded; the power state is
\* recorded by that call only, and by no invocation that returned an error.
C33_StopAsksToRecordRunning ==
  \A v \in StopsReturned :
    /\ StopFollowsMode(v)
    /\ v.ret = "nil" => v.calls[Len(v.calls)] = InstanceCall("VolatileSet", FALSE, 0)
    /\ v.power \in {"", PowerStateRunning}
    /\ v.power = PowerStateRunning => v.ret = "nil"
\* C33 witness: an instance with an invalid timeout was shut down with the
\* default timeout, the shutdown failed, the forced stop found it stopped,
\* and RUNNING was recorded; the other instance was force-stopped and the
\* stop failed.
C33_Witness ==
  /\ evacuation.inv["i1"].timeout = <<"1", "x">>
  /\ evacuation.inv["i1"].calls =
       <<InstanceCall("Shutdown", FALSE, evacuateHostShutdownDefaultTimeout),
         InstanceCall("Stop", FALSE, 0), InstanceCall("VolatileSet", FALSE, 0)>>
  /\ evacuation.inv["i1"].own = ErrInstanceIsStopped
  /\ evacuation.inv["i1"].ret = "nil"
  /\ evacuation.inv["i1"].power = PowerStateRunning
  /\ evacuation.inv["i2"].action = "force-stop"
  /\ evacuation.inv["i2"].ret = "error"

\* C37: when the stop action runs for several instances at the same time,
\* every invocation that returned has returned an error if and only if the
\* stop of its own instance failed. (The invocations share err: the result
\* an invocation checks can be the one another invocation assigned.)
C37_OwnStopResultReturned ==
  \A v \in StopsReturned : v.ret = "error" <=> v.own = "failed"
\* C37 witness: the forced stop of i1 failed and its invocation returned
\* success, the forced stop of i2 succeeded and its invocation returned an
\* error.
C37_Witness ==
  /\ evacuation.inv["i1"].action = "force-stop"
  /\ evacuation.inv["i1"].own = "failed"
  /\ evacuation.inv["i1"].ret = "nil"
  /\ evacuation.inv["i2"].action = "force-stop"
  /\ evacuation.inv["i2"].own = "nil"
  /\ evacuation.inv["i2"].ret = "error"

\* The instances of a call of instancesStart, by position; an instance is
\* eligible when boot.autostart is true, or is not set and the instance ran
\* last; it was started by the call when it runs and did not before.
StartCalled == activate.pc \in {"next", "try", "done"}
StartPositions == 1..Len(activate.input)
StartEligible(i) ==
  i.autostart = "true" \/ (i.autostart = "" /\ i.last_state = PowerStateRunning)
StartedByCall(k) == activate.instances[k].running /\ ~activate.input[k].running
\* Auto-start makes at most three start calls per instance, none for an
\* instance that runs or is not eligible; a warning is stored only after
\* three starts failed with an error other than 503 (a 503 ends the attempts
\* and stores nothing).
StartBudgetKept(k) ==
  /\ activate.starts[k] <= 3
  /\ activate.counted[k] <= activate.starts[k]
  /\ ~StartEligible(activate.input[k]) \/ activate.input[k].running
       => activate.starts[k] = 0
  /\ activate.warned[k] \in {"recorded", "record failed"} => activate.counted[k] = 3
  /\ activate.instances[k].warning /\ ~activate.input[k].warning
       => activate.counted[k] = 3
\* C34 as stated: the budget of three starts is kept, and once a start
\* succeeded no auto-start failure warning is left for the instance.
C34_StartedLeavesNoWarning ==
  StartCalled =>
    \A k \in StartPositions :
      /\ StartBudgetKept(k)
      /\ StartedByCall(k) => ~activate.instances[k].warning
\* C34 amended: the budget of three starts is kept, and once a start
\* succeeded the call has asked for the warnings of the instance to be
\* resolved; when that succeeded no warning is left, when it failed the
\* failure is logged and an earlier warning stays.
C34_StartedAsksToResolve ==
  StartCalled =>
    \A k \in StartPositions :
      /\ StartBudgetKept(k)
      /\ StartedByCall(k) =>
           /\ activate.warned[k] \in {"resolved", "resolve failed"}
           /\ activate.warned[k] = "resolved" => ~activate.instances[k].warning
           /\ activate.warned[k] = "resolve failed" =>
                activate.instances[k].warning = activate.input[k].warning
\* C34 witness: the call returned; the first instance failed to start three
\* times and its warning was stored; the second, which had a warning, failed
\* once, then started, and its warning was resolved.
C34_Witness ==
  /\ activate.pc = "done"
  /\ Len(activate.input) = 2
  /\ activate.starts = <<3, 2>>
  /\ activate.counted = <<3, 1>>
  /\ activate.warned = <<"recorded", "resolved">>
  /\ activate.input[2].warning
  /\ StartedByCall(2)
  /\ ~activate.instances[2].warning
\* C34 witness of the 503: an instance failed to start twice, the third
\* start was answered 503, and nothing was stored.
C34_WitnessUnavailable ==
  /\ activate.pc = "done"
  /\ activate.starts = <<3>>
  /\ activate.counted = <<2>>
  /\ activate.warned = <<"">>

\* The positions of the sorted list of a call of instancesShutdown, the
\* stop priority of an instance, and the instances being shut down.
ShutdownPositions == 1..Len(activate.instances)
StopPriority(inst) == IF inst.priority = <<"5">> THEN 5 ELSE 0
InstancesShuttingDown == {k \in 1..Len(activate.status) : activate.status[k] = "shutting down"}
\* No instance begins to shut down before every running instance of a higher
\* stop priority is done; stopped instances are left alone.
ShutdownInBatches ==
  \A j, k \in ShutdownPositions :
    /\ activate.status[k] # "" => activate.instances[k].running
    /\ /\ activate.instances[j].running
       /\ StopPriority(activate.instances[j]) > StopPriority(activate.instances[k])
       /\ activate.status[k] # ""
       => activate.status[j] = "done"
\* At most min(CPU count, number of instances) instances shut down at once.
ShutdownConcurrencyBounded ==
  /\ Cardinality(InstancesShuttingDown) <= activate.cpus
  /\ Cardinality(InstancesShuttingDown) <= Len(activate.instances)
\* instancesShutdown has returned only when every running instance is done.
ShutdownReturnedAfterAll ==
  activate.pc = "returned" =>
    \A k \in ShutdownPositions :
      activate.status[k] = IF activate.instances[k].running THEN "done" ELSE ""
C35_WitnessReturned ==
  /\ activate.pc = "returned"
  /\ Len(activate.instances) = 3
  /\ activate.status = <<"done", "", "done">>
C35_WitnessEmpty ==
  /\ activate.pc = "returned"
  /\ activate.instances = <<>>

\* Handler i holds the self-removal lock of daemon d: it took it and its
\* goroutine has not ended.
HoldsSelfRemovalLock(i, d) == h[i].kind = "delete" /\ h[i].relG = "wait" /\ h[i].d = d
\* The goroutine of handler i ends in this step, the daemon staying up.
ReleaseGoroutineEnds(i) ==
  /\ h[i].relG = "wait"
  /\ h'[i].kind = "free" \/ h'[i].relG = "done"
  /\ daemon'[h[i].d] = "running"
\* C36: a member DELETE that took the self-removal lock holds it until its
\* goroutine releases it; the goroutine releases it once, when the request
\* is finished, whatever the request returned; every holder releases it in
\* the end, and every dissolve that waits to stop the daemon goes on.
C36_SelfRemovalLockReleased ==
  /\ [](\A i \in HandlerIds :
          h[i].relG = "wait" => clusterPutDisableMu[h[i].d] = i)
  /\ [][\A i \in HandlerIds :
          ReleaseGoroutineEnds(i) =>
            /\ h[i].pc = "done"
            /\ clusterPutDisableMu[h[i].d] = i
            /\ clusterPutDisableMu'[h[i].d] = NoHolder]_vars
  /\ \A i \in HandlerIds, d \in Daemons :
       HoldsSelfRemovalLock(i, d) ~> clusterPutDisableMu[d] # i
  /\ \A c \in HandlerIds : (h[c].exitG = "wait") ~> (h[c].exitG # "wait")
\* C36 witness: the DELETE n2 forwarded returned success and its lock was
\* released, and the dissolve the leader sent for it, which waited for the
\* lock, can now stop the socket-activated daemon.
C36_Witness ==
  /\ systemdSocketActivated["n2"]
  /\ clusterPutDisableMu["n2"] = NoHolder
  /\ \E m, c \in HandlerIds :
       /\ h[m].kind = "delete" /\ h[m].d = "n2" /\ h[m].relG = "done"
       /\ h[m].resp = EmptySyncResponse
       /\ h[c].kind = "put" /\ h[c].origin = m /\ h[c].exitG = "wait" /\ h[c].pc = "done"
\* C36 witness of the failures: the leader returned an error to the DELETE
\* n2 forwarded, which holds the lock; and a DELETE returned an error and
\* its goroutine is about to release the lock.
C36_WitnessLeaderError ==
  \E i, c \in HandlerIds :
    /\ HoldsSelfRemovalLock(i, "n2") /\ h[i].pc = "forwarded" /\ h[i].child = c
    /\ h[c].d = LeaderName /\ h[c].pc = "done" /\ h[c].resp = SmartError
C36_WitnessError ==
  \E i \in HandlerIds :
    HoldsSelfRemovalLock(i, "n2") /\ h[i].pc = "done" /\ h[i].resp = SmartError

\* ------------------------------------------------------------------- C38
\* The hook named hook is one of those in the sequence hooks.
HookIn(hook, hooks) == \E k \in 1..Len(hooks) : hooks[k] = hook

\* C38: a join run that fails after it set the server name leaves the server
\* name and the clustered flag of the daemon as it found them before it set
\* them, leaves the cluster tasks stopped where it started them, and has
\* asked the cluster to delete the pending entry of the joiner where it got
\* as far as the accept request; a run that succeeds runs no revert hook.
C38_FailedJoinRestores ==
  LET r == activate[LastJoin]
  IN /\ r.pc = "failed" /\ r.hooks # <<>> =>
          /\ r.after.serverName = r.before.serverName
          /\ r.after.serverClustered = r.before.serverClustered
          /\ HookIn("tasks", r.hooks) => ~r.after.clusterTasks
          /\ HookIn("pending", r.hooks) => r.deleted = <<r.name>>
     /\ r.pc = "done" => r.reverted = <<>> /\ r.deleted = <<>>

\* C38: a join run failed after it set the server name of a daemon that a
\* bootstrap had clustered in the meantime: the daemon is a member of the
\* cluster of its database with its cluster tasks running, and its clustered
\* flag is off.
C38_Witness ==
  LET r == activate[LastJoin]
  IN /\ r.pc = "failed"
     /\ r.hooks # <<>>
     /\ r.before.serverClustered
     /\ ~r.after.serverClustered
     /\ ~serverClustered["n1"]
     /\ gateway["n1"].member = "n1"
     /\ clusterTasks["n1"]

\* ------------------------------------------------------------------- C39
\* The join operations of daemon d that are pending or running.
JoinOps(d) == {o \in PutOpIds : putOps[o].kind = "join" /\ putOps[o].d = d}

\* C39: a daemon has at most one join operation, pending or running, at any
\* time.
C39_OneJoinPerNode == \A d \in Daemons : Cardinality(JoinOps(d)) <= 1

\* C39: two join operations of the same daemon are running, and both have
\* set the server name.
C39_Witness ==
  \E o1, o2 \in JoinOps("n1") :
    /\ o1 # o2
    /\ activate[o1].pc = "named"
    /\ activate[o2].pc \in {"named", "accepting", "started"}

\* ------------------------------------------------------------------- C40
\* Handler i is the handler of a graceful removal on the leader, between the
\* lock and the purge of the row.
GracefulDelete(i) ==
  /\ h[i].kind = "delete"
  /\ ~h[i].force
  /\ h[i].pc \in {"locked", "cleanup", "purge"}

\* C40: a graceful removal that returns an error (from the image sync,
\* cluster.Leave, the clean-up on the departing member or the purge) leaves
\* the member, whose row was in the members table, in the Raft configuration
\* and its row in the table.
C40_GracefulErrorRemovesNothing ==
  [][\A i \in HandlerIds :
       (GracefulDelete(i) /\ HandlerReturns(i) /\ members[h[i].name] # NoRow)
         => /\ raft'[h[i].name] # "none"
            /\ members'[h[i].name] # NoRow
    ]_vars

\* C40: a graceful removal of the leader n1, forwarded by n2, returned an
\* error to n2: n1 is out of the Raft configuration and its row is still in
\* the members table.
C40_Witness ==
  \E i \in HandlerIds :
    /\ h[i].kind = "delete"
    /\ ~h[i].force
    /\ h[i].name = LeaderName
    /\ h[i].pc = "done"
    /\ h[i].resp = SmartError
    /\ raft[LeaderName] = "none"
    /\ members[LeaderName] # NoRow

====
